---------------------------- MODULE Spec2Model ----------------------------
(***************************************************************************)
(* Model of pkg/formatting (promql.go) of o11y-analysis-tools: the PromQL  *)
(* structural analyzer and multiline formatter.                            *)
(*                                                                         *)
(* A Go string is modelled as the sequence of its bytes; a byte is a       *)
(* one-character TLA+ string for ASCII and a two-hex-digit name for a byte *)
(* of a multi-byte UTF-8 rune ("C3", "A9" are the two bytes of U+00E9).    *)
(* Positions are 1-based: Go's expr[i] is s[i+1].                          *)
(***************************************************************************)
EXTENDS Integers, Sequences, FiniteSets, TLC

---------------------------------------------------------------------------
(* Character classes of Go's regexp (RE2 syntax) and of package strings.  *)

Lower == {"a","b","c","d","e","f","g","h","i","j","k","l","m",
          "n","o","p","q","r","s","t","u","v","w","x","y","z"}
Upper == {"A","B","C","D","E","F","G","H","I","J","K","L","M",
          "N","O","P","Q","R","S","T","U","V","W","X","Y","Z"}
Digit == {"0","1","2","3","4","5","6","7","8","9"}

\* \w of RE2: [0-9A-Za-z_]; \b is the boundary between \w and non-\w.
WordCh == Lower \cup Upper \cup Digit \cup {"_"}

\* \s of RE2: [\t\n\f\r ].
ReSpace == {" ", "\t", "\n", "\f", "\r"}

\* unicode.IsSpace restricted to one-byte runes, as strings.TrimSpace and
\* strings.Fields use it ('\v' is not a byte of any modelled input).
GoSpace == {" ", "\t", "\n", "\f", "\r"}

\* The continuation bytes of UTF-8 (10xxxxxx) among the modelled bytes.
ContinuationBytes == {"A9"}

\* utf8.RuneCountInString: the number of bytes that start a rune.
RuneCount(s) == Cardinality({i \in 1..Len(s) : s[i] \notin ContinuationBytes})

---------------------------------------------------------------------------
(* package strings                                                         *)

\* s[b:e] of Go with 1-based b and exclusive e.
Slice(s, b, e) == SubSeq(s, b, e - 1)

HasPrefixAt(s, i, p) ==
    /\ i >= 1
    /\ i + Len(p) - 1 <= Len(s)
    /\ \A k \in 1..Len(p) : s[i + k - 1] = p[k]

HasPrefix(s, p) == HasPrefixAt(s, 1, p)

HasSuffix(s, p) == Len(p) <= Len(s) /\ HasPrefixAt(s, Len(s) - Len(p) + 1, p)

\* The first position in lo..hi at which sub occurs in s, 0 if there is
\* none: the first one of the lower half, else the first one of the upper.
RECURSIVE IndexIn(_, _, _, _)
IndexIn(s, sub, lo, hi) ==
    IF lo > hi THEN 0
    ELSE IF lo = hi THEN (IF HasPrefixAt(s, lo, sub) THEN lo ELSE 0)
    ELSE LET lower == IndexIn(s, sub, lo, (lo + hi) \div 2)
         IN  IF lower # 0 THEN lower
             ELSE IndexIn(s, sub, (lo + hi) \div 2 + 1, hi)

\* strings.Index, 1-based, from position i on; 0 when sub does not occur
\* (Go's -1).
IndexFrom(s, sub, i) == IndexIn(s, sub, i, Len(s) - Len(sub) + 1)

Index(s, sub) == IndexFrom(s, sub, 1)

Contains(s, sub) == Index(s, sub) # 0

\* strings.Count for a non-empty sub: non-overlapping occurrences.
RECURSIVE CountFrom(_, _, _)
CountFrom(s, sub, i) ==
    LET j == IndexFrom(s, sub, i)
    IN  IF j = 0 THEN 0 ELSE 1 + CountFrom(s, sub, j + Len(sub))

Count(s, sub) == CountFrom(s, sub, 1)

\* strings.Split for a non-empty sep.
RECURSIVE SplitFrom(_, _, _)
SplitFrom(s, sep, i) ==
    LET j == IndexFrom(s, sep, i)
    IN  IF j = 0 THEN << Slice(s, i, Len(s) + 1) >>
        ELSE << Slice(s, i, j) >> \o SplitFrom(s, sep, j + Len(sep))

Split(s, sep) == SplitFrom(s, sep, 1)

\* strings.Join.
RECURSIVE Join(_, _)
Join(elems, sep) ==
    IF elems = << >> THEN << >>
    ELSE IF Len(elems) = 1 THEN elems[1]
    ELSE elems[1] \o sep \o Join(Tail(elems), sep)

\* strings.Repeat of a one-byte string.
Repeat(c, n) == [k \in 1..n |-> c]

\* The first position in lo..hi whose byte is outside cs, hi + 1 if none.
RECURSIVE SkipIn(_, _, _, _)
SkipIn(s, cs, lo, hi) ==
    IF lo > hi THEN hi + 1
    ELSE IF lo = hi THEN (IF s[lo] \notin cs THEN lo ELSE hi + 1)
    ELSE LET lower == SkipIn(s, cs, lo, (lo + hi) \div 2)
         IN  IF lower <= (lo + hi) \div 2 THEN lower
             ELSE SkipIn(s, cs, (lo + hi) \div 2 + 1, hi)

\* The last position in lo..hi whose byte is outside cs, lo - 1 if none.
RECURSIVE SkipBackIn(_, _, _, _)
SkipBackIn(s, cs, lo, hi) ==
    IF lo > hi THEN lo - 1
    ELSE IF lo = hi THEN (IF s[lo] \notin cs THEN lo ELSE lo - 1)
    ELSE LET upper == SkipBackIn(s, cs, (lo + hi) \div 2 + 1, hi)
         IN  IF upper > (lo + hi) \div 2 THEN upper
             ELSE SkipBackIn(s, cs, lo, (lo + hi) \div 2)

\* The first position at or after i whose byte is outside cs (Len(s)+1 if none).
SkipSet(s, i, cs) == IF i > Len(s) THEN i ELSE SkipIn(s, cs, i, Len(s))

\* The last position at or before i whose byte is outside cs (0 if none).
SkipSetBack(s, i, cs) == IF i < 1 THEN i ELSE SkipBackIn(s, cs, 1, i)

\* strings.Trim(s, cutset), strings.TrimRight and strings.TrimSpace.
TrimSet(s, cs) ==
    LET b == SkipSet(s, 1, cs)
        e == SkipSetBack(s, Len(s), cs)
    IN  IF b > e THEN << >> ELSE SubSeq(s, b, e)

TrimRightSet(s, cs) == SubSeq(s, 1, SkipSetBack(s, Len(s), cs))

TrimSpace(s) == TrimSet(s, GoSpace)

\* strings.ToLower on ASCII; bytes of multi-byte runes are left alone.
LowerOf(c) ==
    CASE c = "A" -> "a" [] c = "B" -> "b" [] c = "C" -> "c" [] c = "D" -> "d"
      [] c = "E" -> "e" [] c = "F" -> "f" [] c = "G" -> "g" [] c = "H" -> "h"
      [] c = "I" -> "i" [] c = "J" -> "j" [] c = "K" -> "k" [] c = "L" -> "l"
      [] c = "M" -> "m" [] c = "N" -> "n" [] c = "O" -> "o" [] c = "P" -> "p"
      [] c = "Q" -> "q" [] c = "R" -> "r" [] c = "S" -> "s" [] c = "T" -> "t"
      [] c = "U" -> "u" [] c = "V" -> "v" [] c = "W" -> "w" [] c = "X" -> "x"
      [] c = "Y" -> "y" [] c = "Z" -> "z" [] OTHER -> c

ToLower(s) == [k \in 1..Len(s) |-> LowerOf(s[k])]

\* strings.Replace(s, old, new, 1): the first occurrence only.
ReplaceFirst(s, old, new) ==
    LET j == Index(s, old)
    IN  IF j = 0 THEN s
        ELSE Slice(s, 1, j) \o new \o Slice(s, j + Len(old), Len(s) + 1)

---------------------------------------------------------------------------
(* package regexp.  A compiled pattern is a tree of records:               *)
(*   [t |-> "lit", s |-> bytes]       a literal                            *)
(*   [t |-> "set", cs |-> S]          one byte of S        ([...], \s)     *)
(*   [t |-> "nset", cs |-> S]         one byte not in S    ([^...])        *)
(*   [t |-> "any"]                    .        (any byte but "\n")         *)
(*   [t |-> "rep", x |-> r, min |-> n]  r* (n = 0) or r+ (n = 1), greedy,  *)
(*                                    r one of set, nset, any              *)
(*   [t |-> "star", x |-> r]          (?:r)*   greedy, r not nullable      *)
(*   [t |-> "cat", xs |-> <<r, ...>>] concatenation                        *)
(*   [t |-> "alt", xs |-> <<r, ...>>] r|...    first alternative preferred *)
(*   [t |-> "grp", n |-> k, x |-> r]  capturing group number k             *)
(*   [t |-> "bot"], [t |-> "eot"]     ^ and $ without (?m)                 *)
(*   [t |-> "bol"], [t |-> "eol"]     ^ and $ under (?m)                   *)
(*   [t |-> "wb"]                     \b                                   *)
(* Matching is the backtracking search whose first success is the match    *)
(* regexp's leftmost-first semantics selects.                              *)

Lit(s) == [t |-> "lit", s |-> s]
OneOf(cs) == [t |-> "set", cs |-> cs]
NoneOf(cs) == [t |-> "nset", cs |-> cs]
AnyCh == [t |-> "any"]
Star(r) == [t |-> "rep", x |-> r, min |-> 0]
Plus(r) == [t |-> "rep", x |-> r, min |-> 1]
GroupStar(r) == [t |-> "star", x |-> r]
Cat(xs) == [t |-> "cat", xs |-> xs]
Alt(xs) == [t |-> "alt", xs |-> xs]
Grp(n, r) == [t |-> "grp", n |-> n, x |-> r]
Bot == [t |-> "bot"]
Eot == [t |-> "eot"]
Bol == [t |-> "bol"]
Eol == [t |-> "eol"]
WordB == [t |-> "wb"]

\* The largest group number of the modelled patterns.
MaxGroups == 4

NoCaps == [n \in 1..MaxGroups |-> << 0, 0 >>]

NoMatch == [ok |-> FALSE, pos |-> 0, caps |-> NoCaps]

\* One byte c against a single-byte pattern r.
ByteIn(r, c) ==
    CASE r.t = "set" -> c \in r.cs
      [] r.t = "nset" -> c \notin r.cs
      [] r.t = "any" -> c # "\n"

IsWordAt(s, i) == i >= 1 /\ i <= Len(s) /\ s[i] \in WordCh

\* The first position in lo..hi whose byte does not match r, hi + 1 if
\* there is none.
RECURSIVE RunEndIn(_, _, _, _)
RunEndIn(r, s, lo, hi) ==
    IF lo > hi THEN hi + 1
    ELSE IF lo = hi THEN (IF ~ByteIn(r, s[lo]) THEN lo ELSE hi + 1)
    ELSE LET lower == RunEndIn(r, s, lo, (lo + hi) \div 2)
         IN  IF lower <= (lo + hi) \div 2 THEN lower
             ELSE RunEndIn(r, s, (lo + hi) \div 2 + 1, hi)

\* The end of the longest run of bytes matching r from position i.
RunEnd(r, s, i) == IF i > Len(s) THEN i ELSE RunEndIn(r, s, i, Len(s))

\* ReMatch(k, s, i, caps): match the patterns of the sequence k one after
\* the other from position i of s; the result holds the position after the
\* match and the groups' [begin, end) positions.
RECURSIVE ReMatch(_, _, _, _)
RECURSIVE ReTryAlt(_, _, _, _, _)
RECURSIVE ReTryRun(_, _, _, _, _)

\* The sequence k begins with a pattern of kind t.
Heads(k, t) == k # << >> /\ k[1].t = t

ReMatch(k, s, i, caps) ==
    CASE k = << >> -> [ok |-> TRUE, pos |-> i, caps |-> caps]
      [] Heads(k, "lit") /\ HasPrefixAt(s, i, k[1].s) ->
           ReMatch(Tail(k), s, i + Len(k[1].s), caps)
      [] k # << >> /\ k[1].t \in {"set", "nset", "any"}
           /\ i <= Len(s) /\ ByteIn(k[1], s[i]) ->
           ReMatch(Tail(k), s, i + 1, caps)
      [] Heads(k, "rep") ->
           ReTryRun(Tail(k), s, RunEnd(k[1].x, s, i), i + k[1].min, caps)
      [] Heads(k, "star") ->
           LET more == ReMatch(<< k[1].x, [t |-> "adv", from |-> i] >> \o k,
                               s, i, caps)
           IN  IF more.ok THEN more ELSE ReMatch(Tail(k), s, i, caps)
      [] Heads(k, "adv") /\ i > k[1].from -> ReMatch(Tail(k), s, i, caps)
      [] Heads(k, "cat") -> ReMatch(k[1].xs \o Tail(k), s, i, caps)
      [] Heads(k, "alt") -> ReTryAlt(k[1].xs, Tail(k), s, i, caps)
      [] Heads(k, "grp") ->
           ReMatch(<< [t |-> "open", n |-> k[1].n], k[1].x,
                      [t |-> "close", n |-> k[1].n] >> \o Tail(k), s, i, caps)
      [] Heads(k, "open") ->
           ReMatch(Tail(k), s, i, [caps EXCEPT ![k[1].n] = << i, i >>])
      [] Heads(k, "close") ->
           ReMatch(Tail(k), s, i, [caps EXCEPT ![k[1].n] = << caps[k[1].n][1], i >>])
      [] Heads(k, "bot") /\ i = 1 -> ReMatch(Tail(k), s, i, caps)
      [] Heads(k, "eot") /\ i = Len(s) + 1 -> ReMatch(Tail(k), s, i, caps)
      [] Heads(k, "bol") /\ (i = 1 \/ s[i - 1] = "\n") ->
           ReMatch(Tail(k), s, i, caps)
      [] Heads(k, "eol") /\ (i = Len(s) + 1 \/ s[i] = "\n") ->
           ReMatch(Tail(k), s, i, caps)
      [] Heads(k, "wb") /\ IsWordAt(s, i - 1) # IsWordAt(s, i) ->
           ReMatch(Tail(k), s, i, caps)
      [] OTHER -> NoMatch

\* The alternatives xs in order, each followed by rest.
ReTryAlt(xs, rest, s, i, caps) ==
    IF xs = << >> THEN NoMatch
    ELSE LET m == ReMatch(<< Head(xs) >> \o rest, s, i, caps)
         IN  IF m.ok THEN m ELSE ReTryAlt(Tail(xs), rest, s, i, caps)

\* A greedy run that may end at hi, hi-1, ..., lo: the longest first, and
\* among the shorter ones those of the upper half before the lower.
ReTryRun(rest, s, hi, lo, caps) ==
    IF hi < lo THEN NoMatch
    ELSE LET longest == ReMatch(rest, s, hi, caps)
             upper == ReTryRun(rest, s, hi - 1, (lo + hi) \div 2, caps)
         IN  IF longest.ok THEN longest
             ELSE IF upper.ok THEN upper
             ELSE ReTryRun(rest, s, (lo + hi) \div 2 - 1, lo, caps)

\* The pattern can match at position 1 only: it begins with ^.
Anchored(re) == re.t = "cat" /\ re.xs # << >> /\ re.xs[1].t = "bot"

\* The leftmost match of re in s that starts in lo..hi: the one of the
\* lower half, else the one of the upper half.
RECURSIVE ReFindIn(_, _, _, _)
ReFindIn(re, s, lo, hi) ==
    IF lo > hi THEN [ok |-> FALSE, start |-> 0, pos |-> 0, caps |-> NoCaps]
    ELSE IF lo = hi
    THEN LET m == ReMatch(<< re >>, s, lo, NoCaps)
         IN  [ok |-> m.ok, start |-> IF m.ok THEN lo ELSE 0, pos |-> m.pos,
              caps |-> m.caps]
    ELSE LET lower == ReFindIn(re, s, lo, (lo + hi) \div 2)
         IN  IF lower.ok THEN lower
             ELSE ReFindIn(re, s, (lo + hi) \div 2 + 1, hi)

\* The leftmost match of re in s that starts at or after position i:
\* [ok, start, pos, caps], pos the position after the match.
ReFindFrom(re, s, i) ==
    ReFindIn(re, s, i, IF Anchored(re) THEN 1 ELSE Len(s) + 1)

\* Regexp.MatchString.
MatchString(re, s) == ReFindFrom(re, s, 1).ok

\* Regexp.FindString: the text of the leftmost match, "" if there is none.
FindString(re, s) ==
    LET m == ReFindFrom(re, s, 1)
    IN  IF m.ok THEN Slice(s, m.start, m.pos) ELSE << >>

\* Regexp.FindStringSubmatch: << match, group 1, ..., group n >>, or << >>
\* (Go's nil) if there is no match.
FindStringSubmatch(re, n, s) ==
    LET m == ReFindFrom(re, s, 1)
    IN  IF m.ok
        THEN << Slice(s, m.start, m.pos) >>
             \o [g \in 1..n |-> Slice(s, m.caps[g][1], m.caps[g][2])]
        ELSE << >>

---------------------------------------------------------------------------
(* Byte strings of the program's literals.                                 *)

LParen == << "(" >>
RParen == << ")" >>
KwBy == << "b", "y" >>
KwWithout == << "w", "i", "t", "h", "o", "u", "t" >>
Comma == << "," >>
NL == << "\n" >>
DQuote == << "\"" >>
SQuote == << "'" >>

\* An issue is the message fmt.Sprintf builds: its format, named by kind, and
\* the arguments it is filled with.
Issue(kind, args) == [kind |-> kind, args |-> args]

\* AggregationStyle (iota constants).
AggregationStyleUnknown == "unknown"
AggregationStylePostfix == "postfix"
AggregationStylePrefix == "prefix"

---------------------------------------------------------------------------
(* detectAggregationStyle                                                  *)

\* aggregationOps of detectAggregationStyle, in order.
DetectAggregationOps ==
    << << "s", "u", "m" >>, << "m", "i", "n" >>, << "m", "a", "x" >>,
       << "a", "v", "g" >>, << "g", "r", "o", "u", "p" >>,
       << "s", "t", "d", "d", "e", "v" >>,
       << "s", "t", "d", "v", "a", "r" >>,
       << "c", "o", "u", "n", "t" >>,
       << "c", "o", "u", "n", "t", "_", "v", "a", "l", "u", "e", "s" >>,
       << "b", "o", "t", "t", "o", "m", "k" >>,
       << "t", "o", "p", "k" >>,
       << "q", "u", "a", "n", "t", "i", "l", "e" >> >>

ByOrWithout(n) == Grp(n, Alt(<< Lit(KwBy), Lit(KwWithout) >>))

\* \b<op>\s+(by|without)\s*\([^)]*\)\s*\(
DetectPrefixPattern(op) ==
    Cat(<< WordB, Lit(op), Plus(OneOf(ReSpace)), ByOrWithout(1),
           Star(OneOf(ReSpace)), Lit(LParen), Star(NoneOf({")"})), Lit(RParen),
           Star(OneOf(ReSpace)), Lit(LParen) >>)

\* \b(sum|min|...|quantile)\s*\(.*\)\s*(by|without)\s*\(
DetectPostfixPattern ==
    Cat(<< WordB,
           Grp(1, Alt([k \in 1..Len(DetectAggregationOps) |->
                          Lit(DetectAggregationOps[k])])),
           Star(OneOf(ReSpace)), Lit(LParen), Star(AnyCh), Lit(RParen),
           Star(OneOf(ReSpace)), ByOrWithout(2), Star(OneOf(ReSpace)),
           Lit(LParen) >>)

\* A variant that tests the postfix pattern first.
DetectAggregationStylePostfixFirst(expr) ==
    IF MatchString(DetectPostfixPattern, expr)
    THEN AggregationStylePostfix
    ELSE IF \E k \in 1..Len(DetectAggregationOps) :
                MatchString(DetectPrefixPattern(DetectAggregationOps[k]), expr)
    THEN AggregationStylePrefix
    ELSE AggregationStyleUnknown

detectAggregationStyle(expr) ==
    IF \E k \in 1..Len(DetectAggregationOps) :
           MatchString(DetectPrefixPattern(DetectAggregationOps[k]), expr)
    THEN AggregationStylePrefix
    ELSE IF MatchString(DetectPostfixPattern, expr)
    THEN AggregationStylePostfix
    ELSE AggregationStyleUnknown

---------------------------------------------------------------------------
(* shouldBeMultiline                                                       *)

\* The line length above which an expression is to be multiline.
LineLengthLimit == 80

\* operators of shouldBeMultiline, in order.
MultilineOperators ==
    << << " ", "a", "n", "d", " " >>,
       << " ", "o", "r", " " >>,
       << " ", "u", "n", "l", "e", "s", "s", " " >>,
       << " ", "b", "y", " " >>,
       << " ", "w", "i", "t", "h", "o", "u", "t", " " >>,
       << " ", "o", "n", " " >>,
       << " ", "i", "g", "n", "o", "r", "i", "n", "g", " " >> >>

RECURSIVE SumCounts(_, _)
SumCounts(s, subs) ==
    IF subs = << >> THEN 0
    ELSE Count(s, Head(subs)) + SumCounts(s, Tail(subs))

\* operatorCount after the loop of shouldBeMultiline.
OperatorCount(expr) == SumCounts(ToLower(expr), MultilineOperators)

\* A variant that tests the length whatever the options say.
ShouldBeMultilineWhateverOptions(expr, disableLineLength) ==
    Len(expr) > LineLengthLimit \/ OperatorCount(expr) >= 2

shouldBeMultiline(expr, disableLineLength) ==
    IF ~disableLineLength /\ Len(expr) > LineLengthLimit THEN TRUE
    ELSE OperatorCount(expr) >= 2

---------------------------------------------------------------------------
(* extractTrailingAggregation                                              *)

\* \)\s+(by|without)\s*\([^)]+\)\s*$
TrailingAggRegex ==
    Cat(<< Lit(RParen), Plus(OneOf(ReSpace)), ByOrWithout(1),
           Star(OneOf(ReSpace)), Lit(LParen), Plus(NoneOf({")"})), Lit(RParen),
           Star(OneOf(ReSpace)), Eot >>)

\* A variant that keeps the white space after the clause.
ExtractTrailingAggregationUntrimmed(expr) == FindString(TrailingAggRegex, expr)

extractTrailingAggregation(expr) ==
    LET match == FindString(TrailingAggRegex, expr)
    IN  IF match # << >> THEN TrimSpace(match) ELSE << >>

---------------------------------------------------------------------------
(* splitByBinaryOperator                                                   *)

\* The locals of the loop of splitByBinaryOperator; cut is the byte at which
\* the loop returned, 0 while it runs.
SplitLocals(depth, inQuote, quoteChar, cut) ==
    [depth |-> depth, inQuote |-> inQuote, quoteChar |-> quoteChar, cut |-> cut]

\* What a runtime panic (index out of range, slice bounds out of range)
\* leaves where a value was expected: a text of one element that is no byte.
PanicMark == "panic: runtime error"

Panic == << PanicMark >>

\* s[i] is in range; the bytes are counted from 1.
IndexInRange(s, i) == 1 <= i /\ i <= Len(s)

\* s[b:e] is in range; b the first byte, e the byte after the last.
SliceInRange(s, b, e) == 1 <= b /\ b <= e /\ e <= Len(s) + 1

\* The index expressions iteration i evaluates, for a loop that reads
\* expr[i-1] at every quote character, the first byte included.
SplitStepFaultsAtFirstByte(expr, op, i, l) ==
    LET ch == expr[i]
        isQuote == ch = "\"" \/ ch = "'"
        handled == isQuote /\ expr[i - 1] # "\\"
        d == CASE ch = "(" -> l.depth + 1
               [] ch = ")" -> l.depth - 1
               [] OTHER -> l.depth
        tested == ~handled /\ ~l.inQuote /\ d = 0 /\ i + Len(op) - 1 <= Len(expr)
    IN  \/ ~IndexInRange(expr, i)
        \/ isQuote /\ ~IndexInRange(expr, i - 1)
        \/ tested /\ ~SliceInRange(expr, i, i + Len(op))
        \/ tested /\ HasPrefixAt(expr, i, op)
              /\ (~SliceInRange(expr, 1, i)
                  \/ ~SliceInRange(expr, i + Len(op), Len(expr) + 1))

\* Iteration i panics: one of the index expressions it evaluates is out of
\* range.  expr[i]; expr[i-1], read at a quote character unless i == 0;
\* expr[i:i+len(op)], read at depth 0 outside quotes when i+len(op) <=
\* len(expr); expr[:i] and expr[i+len(op):], read when that slice is op.
SplitStepFaults(expr, op, i, l) ==
    LET ch == expr[i]
        isQuote == ch = "\"" \/ ch = "'"
        handled == isQuote /\ (i = 1 \/ expr[i - 1] # "\\")
        d == CASE ch = "(" -> l.depth + 1
               [] ch = ")" -> l.depth - 1
               [] OTHER -> l.depth
        tested == ~handled /\ ~l.inQuote /\ d = 0 /\ i + Len(op) - 1 <= Len(expr)
    IN  \/ ~IndexInRange(expr, i)
        \/ isQuote /\ i # 1 /\ ~IndexInRange(expr, i - 1)
        \/ tested /\ ~SliceInRange(expr, i, i + Len(op))
        \/ tested /\ HasPrefixAt(expr, i, op)
              /\ (~SliceInRange(expr, 1, i)
                  \/ ~SliceInRange(expr, i + Len(op), Len(expr) + 1))

\* The locals of a loop that panicked: cut is -1.
Faulted(l) == SplitLocals(l.depth, l.inQuote, l.quoteChar, -1)

\* One iteration of the loop, at byte i.  A variant that takes every quote
\* character for a quote, whatever the byte before it.
SplitStepEveryQuote(expr, op, i, l) ==
    LET ch == expr[i]
    IN  IF ch = "\"" \/ ch = "'"
        THEN IF ~l.inQuote THEN SplitLocals(l.depth, TRUE, ch, 0)
             ELSE IF ch = l.quoteChar THEN SplitLocals(l.depth, FALSE, l.quoteChar, 0)
             ELSE l
        ELSE IF l.inQuote THEN l
        ELSE
        LET d == CASE ch = "(" -> l.depth + 1
                   [] ch = ")" -> l.depth - 1
                   [] OTHER -> l.depth
        IN  IF d = 0 /\ i + Len(op) - 1 <= Len(expr) /\ HasPrefixAt(expr, i, op)
            THEN SplitLocals(d, l.inQuote, l.quoteChar, i)
            ELSE SplitLocals(d, l.inQuote, l.quoteChar, 0)

\* One iteration of the loop, at byte i.
SplitStep(expr, op, i, l) ==
    IF SplitStepFaults(expr, op, i, l) THEN Faulted(l)
    ELSE
    LET ch == expr[i]
    IN  IF (ch = "\"" \/ ch = "'") /\ (i = 1 \/ expr[i - 1] # "\\")
        THEN IF ~l.inQuote THEN SplitLocals(l.depth, TRUE, ch, 0)
             ELSE IF ch = l.quoteChar THEN SplitLocals(l.depth, FALSE, l.quoteChar, 0)
             ELSE l
        ELSE IF l.inQuote THEN l
        ELSE
        LET d == CASE ch = "(" -> l.depth + 1
                   [] ch = ")" -> l.depth - 1
                   [] OTHER -> l.depth
        IN  IF d = 0 /\ i + Len(op) - 1 <= Len(expr) /\ HasPrefixAt(expr, i, op)
            THEN SplitLocals(d, l.inQuote, l.quoteChar, i)
            ELSE SplitLocals(d, l.inQuote, l.quoteChar, 0)

\* The iterations lo..hi of the loop, entered with the locals l: those of
\* the lower half, then, if the loop did not return, those of the upper.
RECURSIVE SplitScan(_, _, _, _, _)
SplitScan(expr, op, lo, hi, l) ==
    IF lo > hi THEN l
    ELSE IF lo = hi THEN SplitStep(expr, op, lo, l)
    ELSE LET lower == SplitScan(expr, op, lo, (lo + hi) \div 2, l)
         IN  IF lower.cut # 0 THEN lower
             ELSE SplitScan(expr, op, (lo + hi) \div 2 + 1, hi, lower)

splitByBinaryOperator(expr, op) ==
    LET done == SplitScan(expr, op, 1, Len(expr), SplitLocals(0, FALSE, "", 0))
    IN  IF done.cut < 0 THEN << Panic >>
        ELSE IF done.cut = 0 THEN << expr >>
        ELSE << Slice(expr, 1, done.cut),
                Slice(expr, done.cut + Len(op), Len(expr) + 1) >>

---------------------------------------------------------------------------
(* formatOperand                                                           *)

\* aggOps of formatOperand, in order.
FormatAggOps ==
    << << "s", "u", "m" >>, << "a", "v", "g" >>, << "m", "i", "n" >>,
       << "m", "a", "x" >>, << "c", "o", "u", "n", "t" >>,
       << "s", "t", "d", "d", "e", "v" >>,
       << "s", "t", "d", "v", "a", "r" >>,
       << "t", "o", "p", "k" >>,
       << "b", "o", "t", "t", "o", "m", "k" >>,
       << "q", "u", "a", "n", "t", "i", "l", "e" >>,
       << "c", "o", "u", "n", "t", "_", "v", "a", "l", "u", "e", "s" >> >>

\* (\([^)]+\))
LabelsGroup(n) == Grp(n, Cat(<< Lit(LParen), Plus(NoneOf({")"})), Lit(RParen) >>))

\* ^(<aggOp>)\s*(\([^)]+(?:\([^)]*\))*[^)]*\))\s+(by|without)\s*(\([^)]+\))$
OperandPostfixPattern(aggOp) ==
    Cat(<< Bot, Grp(1, Lit(aggOp)), Star(OneOf(ReSpace)),
           Grp(2, Cat(<< Lit(LParen), Plus(NoneOf({")"})),
                         GroupStar(Cat(<< Lit(LParen), Star(NoneOf({")"})),
                                          Lit(RParen) >>)),
                         Star(NoneOf({")"})), Lit(RParen) >>)),
           Plus(OneOf(ReSpace)), ByOrWithout(3), Star(OneOf(ReSpace)),
           LabelsGroup(4), Eot >>)

\* ^(<aggOp>)\s+(by|without)\s*(\([^)]+\))\s*(\(.+\))$
OperandPrefixPattern(aggOp) ==
    Cat(<< Bot, Grp(1, Lit(aggOp)), Plus(OneOf(ReSpace)), ByOrWithout(2),
           Star(OneOf(ReSpace)), LabelsGroup(3), Star(OneOf(ReSpace)),
           Grp(4, Cat(<< Lit(LParen), Plus(AnyCh), Lit(RParen) >>)), Eot >>)

\* ^(<aggOp>)\s*(\(.+\))$
OperandSimplePattern(aggOp) ==
    Cat(<< Bot, Grp(1, Lit(aggOp)), Star(OneOf(ReSpace)),
           Grp(2, Cat(<< Lit(LParen), Plus(AnyCh), Lit(RParen) >>)), Eot >>)

\* The inner expression with its outer parentheses left in place.
KeepOuterParens(inner) == TrimSpace(inner)

\* "Remove outer parentheses from inner expression".
StripOuterParens(inner) ==
    LET e == TrimSpace(inner)
    IN  IF HasPrefix(e, LParen) /\ HasSuffix(e, RParen)
        THEN IF SliceInRange(e, 2, Len(e)) THEN TrimSpace(Slice(e, 2, Len(e)))
             ELSE Panic
        ELSE e

\* fmt.Sprintf("%s (\n%s\n%s)", aggFunc, formattedInner, indent)
SprintfBare(aggFunc, formattedInner, indent) ==
    aggFunc \o << " ", "(" >> \o NL \o formattedInner \o NL \o indent \o RParen

\* fmt.Sprintf("%s %s %s (\n%s\n%s)", aggFunc, byOrWithout, labels, ...)
SprintfClause(aggFunc, byOrWithout, labels, formattedInner, indent) ==
    aggFunc \o << " " >> \o byOrWithout \o << " " >> \o labels \o << " ", "(" >> \o NL
        \o formattedInner \o NL \o indent \o RParen

\* The body of formatOperand's loop from aggOps[k] on; expr is trimmed.
RECURSIVE FormatOperandFrom(_, _, _, _)
FormatOperandFrom(expr, baseIndent, omitAggregation, k) ==
    IF k > Len(FormatAggOps) THEN expr
    ELSE
    LET aggOp == FormatAggOps[k]
        post == FindStringSubmatch(OperandPostfixPattern(aggOp), 4, expr)
        pre == FindStringSubmatch(OperandPrefixPattern(aggOp), 4, expr)
        simple == FindStringSubmatch(OperandSimplePattern(aggOp), 2, expr)
        indent == Repeat(" ", baseIndent + 2)
        base == Repeat(" ", baseIndent)
    IN  IF post # << >>
        THEN LET formattedInner == indent \o StripOuterParens(post[3])
             IN  IF omitAggregation
                 THEN SprintfBare(post[2], formattedInner, base)
                 ELSE SprintfClause(post[2], post[4], post[5], formattedInner, base)
        ELSE IF pre # << >>
        THEN LET formattedInner == indent \o StripOuterParens(pre[5])
             IN  IF omitAggregation
                 THEN SprintfBare(pre[2], formattedInner, base)
                 ELSE SprintfClause(pre[2], pre[3], pre[4], formattedInner, base)
        ELSE IF simple # << >>
        THEN SprintfBare(simple[2], indent \o StripOuterParens(simple[3]), base)
        ELSE FormatOperandFrom(expr, baseIndent, omitAggregation, k + 1)

formatOperand(expr, baseIndent, omitAggregation) ==
    FormatOperandFrom(TrimSpace(expr), baseIndent, omitAggregation, 1)

---------------------------------------------------------------------------
(* formatPromQLMultiline                                                   *)

\* binaryOps of formatPromQLMultiline, checkRedundantAggregations and
\* checkAggregationPlacement, in order.
BinaryOps ==
    << << " ", "/", " " >>, << " ", "*", " " >>, << " ", "+", " " >>,
       << " ", "-", " " >>, << " ", "%", " " >>, << " ", "^", " " >> >>

\* omitLeftAggregation: "If both have the same aggregation (and it's not
\* 'without'), omit from left".
\* A variant that omits the left clause whatever its keyword.
OmitLeftAggregationAnyKeyword(leftAgg, rightAgg) ==
    leftAgg # << >> /\ leftAgg = rightAgg

OmitLeftAggregation(leftAgg, rightAgg) ==
    leftAgg # << >> /\ leftAgg = rightAgg /\ ~Contains(leftAgg, KwWithout)

\* by\s*\(([^)]+)\)
ByRegex ==
    Cat(<< Lit(KwBy), Star(OneOf(ReSpace)), Lit(LParen),
           Grp(1, Plus(NoneOf({")"}))), Lit(RParen) >>)

TrimEach(elems) == [k \in 1..Len(elems) |-> TrimSpace(elems[k])]

\* A variant that keeps the labels as the split leaves them.
MatchingLabelsUntrimmed(rightAgg) ==
    IF rightAgg # << >> /\ Contains(rightAgg, KwBy)
    THEN LET match == FindStringSubmatch(ByRegex, 1, rightAgg)
         IN  IF Len(match) >= 2
             THEN Split(TrimSpace(match[2]), Comma)
             ELSE << >>
    ELSE << >>

\* matchingLabels: the labels of the right operand's by clause.
MatchingLabels(rightAgg) ==
    IF rightAgg # << >> /\ Contains(rightAgg, KwBy)
    THEN LET match == FindStringSubmatch(ByRegex, 1, rightAgg)
         IN  IF Len(match) >= 2
             THEN TrimEach(Split(TrimSpace(match[2]), Comma))
             ELSE << >>
    ELSE << >>

\* opLine: the operator with the optional on() clause.
OpLine(op, matchingLabels) ==
    IF Len(matchingLabels) > 0
    THEN TrimSpace(op) \o << " ", "o", "n", " ", "(" >>
             \o Join(matchingLabels, << ",", " " >>) \o RParen
    ELSE TrimSpace(op)

\* The body of the loop over binaryOps for a split into two parts.
FormatSplit(parts, op) ==
    LET leftStr == TrimSpace(parts[1])
        rightStr == TrimSpace(parts[2])
        leftAgg == extractTrailingAggregation(leftStr)
        rightAgg == extractTrailingAggregation(rightStr)
        left == formatOperand(leftStr, 0, OmitLeftAggregation(leftAgg, rightAgg))
        right == formatOperand(rightStr, 0, FALSE)
    IN  left \o NL \o << " ", " " >> \o OpLine(op, MatchingLabels(rightAgg)) \o NL \o right

RECURSIVE FormatFromLast(_, _)
\* A variant of the loop that goes through binaryOps from its end.
FormatFromLast(expr, k) ==
    IF k > Len(BinaryOps) THEN formatOperand(expr, 0, FALSE)
    ELSE LET op == BinaryOps[Len(BinaryOps) + 1 - k]
             parts == splitByBinaryOperator(expr, op)
         IN  IF Contains(expr, op) /\ parts = << Panic >> THEN Panic
             ELSE IF Contains(expr, op) /\ Len(parts) = 2
             THEN FormatSplit(parts, op)
             ELSE FormatFromLast(expr, k + 1)

\* The loop over binaryOps from binaryOps[k] on.
RECURSIVE FormatFrom(_, _)
FormatFrom(expr, k) ==
    IF k > Len(BinaryOps) THEN formatOperand(expr, 0, FALSE)
    ELSE LET op == BinaryOps[k]
             parts == splitByBinaryOperator(expr, op)
         IN  IF Contains(expr, op) /\ parts = << Panic >> THEN Panic
             ELSE IF Contains(expr, op) /\ Len(parts) = 2
             THEN FormatSplit(parts, op)
             ELSE FormatFrom(expr, k + 1)

formatPromQLMultiline(expr) == FormatFrom(expr, 1)

---------------------------------------------------------------------------
(* checkRedundantAggregations                                              *)

\* A variant that reports whenever both operands have a trailing clause.
RedundantIssuesForAnyClauses(expr, op) ==
    IF ~Contains(expr, op) THEN << >>
    ELSE
    LET parts == Split(expr, op)
    IN  IF Len(parts) # 2 THEN << >>
        ELSE
        LET leftAggClause == extractTrailingAggregation(TrimSpace(parts[1]))
            rightAggClause == extractTrailingAggregation(TrimSpace(parts[2]))
        IN  IF leftAggClause = << >> THEN << >>
            ELSE IF rightAggClause = << >> THEN << >>
            ELSE << Issue("RedundantAggregation", << leftAggClause, op >>) >>

\* The issue, if any, that one round of the loop over binaryOps appends.
RedundantIssuesFor(expr, op) ==
    IF ~Contains(expr, op) THEN << >>
    ELSE
    LET parts == Split(expr, op)
    IN  IF Len(parts) # 2 THEN << >>
        ELSE
        LET leftAggClause == extractTrailingAggregation(TrimSpace(parts[1]))
            rightAggClause == extractTrailingAggregation(TrimSpace(parts[2]))
        IN  IF leftAggClause = << >> THEN << >>
            ELSE IF rightAggClause = << >> THEN << >>
            ELSE IF leftAggClause = rightAggClause
            THEN << Issue("RedundantAggregation", << leftAggClause, op >>) >>
            ELSE << >>

RECURSIVE RedundantFrom(_, _)
RedundantFrom(expr, k) ==
    IF k > Len(BinaryOps) THEN << >>
    ELSE RedundantIssuesFor(expr, BinaryOps[k]) \o RedundantFrom(expr, k + 1)

checkRedundantAggregations(expr) == RedundantFrom(expr, 1)

---------------------------------------------------------------------------
(* checkAggregationPlacement                                               *)

\* The comparison operators of checkAggregationPlacement, in order.
ComparisonOps ==
    << << " ", ">", " " >>, << " ", "<", " " >>, << " ", ">", "=", " " >>,
       << " ", "<", "=", " " >>, << " ", "=", "=", " " >>,
       << " ", "!", "=", " " >> >>

\* hasComparison
HasComparison(expr) == \E k \in 1..Len(ComparisonOps) : Contains(expr, ComparisonOps[k])

\* A variant that leaves nextPart as it is.
KeepComparison(nextPart, k) == nextPart

\* "If there's a comparison operator, split by that too": nextPart cut at
\* the first comparison operator of the list that it contains.
RECURSIVE CutAtComparison(_, _)
CutAtComparison(nextPart, k) ==
    IF k > Len(ComparisonOps) THEN nextPart
    ELSE IF Contains(nextPart, ComparisonOps[k])
    THEN TrimSpace(Split(nextPart, ComparisonOps[k])[1])
    ELSE CutAtComparison(nextPart, k + 1)

\* A variant that flags a clause only where the next operand carries a
\* different one.
RECURSIVE PlacementScanOfDifferentClauses(_, _, _)
PlacementScanOfDifferentClauses(parts, hasComparison, i) ==
    IF i > Len(parts) - 1 THEN << >>
    ELSE
    LET aggClause == extractTrailingAggregation(TrimSpace(parts[i]))
        trimmedNext == TrimSpace(parts[i + 1])
        nextPart == IF hasComparison THEN CutAtComparison(trimmedNext, 1)
                    ELSE trimmedNext
        nextAggClause == extractTrailingAggregation(nextPart)
    IN  IF aggClause # << >> /\ nextAggClause # << >> /\ nextAggClause # aggClause
        THEN << Issue("AggregationPlacement", << aggClause >>) >>
        ELSE PlacementScanOfDifferentClauses(parts, hasComparison, i + 1)

\* The loop over parts[i], i < len(parts)-1, from part i on (1-based): the
\* first intermediate operand whose clause is flagged ends the loop.
RECURSIVE PlacementScan(_, _, _)
PlacementScan(parts, hasComparison, i) ==
    IF i > Len(parts) - 1 THEN << >>
    ELSE
    LET aggClause == extractTrailingAggregation(TrimSpace(parts[i]))
        trimmedNext == TrimSpace(parts[i + 1])
        nextPart == IF hasComparison THEN CutAtComparison(trimmedNext, 1)
                    ELSE trimmedNext
        nextAggClause == extractTrailingAggregation(nextPart)
    IN  IF aggClause # << >> /\ (nextAggClause = << >> \/ nextAggClause = aggClause)
        THEN << Issue("AggregationPlacement", << aggClause >>) >>
        ELSE PlacementScan(parts, hasComparison, i + 1)

PlacementIssuesFor(expr, op) ==
    IF ~Contains(expr, op) THEN << >>
    ELSE PlacementScan(Split(expr, op), HasComparison(expr), 1)

RECURSIVE PlacementFrom(_, _)
PlacementFrom(expr, k) ==
    IF k > Len(BinaryOps) THEN << >>
    ELSE PlacementIssuesFor(expr, BinaryOps[k]) \o PlacementFrom(expr, k + 1)

checkAggregationPlacement(expr) == PlacementFrom(expr, 1)

---------------------------------------------------------------------------
(* getIndentation, formatYAMLBlock                                         *)

getIndentation(line) ==
    LET i == SkipSet(line, 1, {" ", "\t"})
    IN  IF i > Len(line) THEN << >> ELSE Slice(line, 1, i)

\* The lines of the block that are not blank, each trimmed and indented.
RECURSIVE BlockLines(_, _)
BlockLines(lines, indentation) ==
    IF lines = << >> THEN << >>
    ELSE (IF TrimSpace(Head(lines)) # << >>
          THEN indentation \o << " ", " " >> \o TrimSpace(Head(lines)) \o NL
          ELSE << >>)
         \o BlockLines(Tail(lines), indentation)

formatYAMLBlock(prefix, expr, indentation) ==
    IF ~Contains(expr, NL) THEN prefix \o << " " >> \o expr
    ELSE TrimRightSet(prefix \o << " ", "|" >> \o NL
                          \o BlockLines(Split(expr, NL), indentation),
                      {"\n"})

---------------------------------------------------------------------------
(* CheckAndFormatPromQL                                                    *)

\* exprRegex: (?m)^(\s*(?:expr|query):)\s*(.+)$
ExprRegex ==
    Cat(<< Bol,
           Grp(1, Cat(<< Star(OneOf(ReSpace)),
                         Alt(<< Lit(<< "e", "x", "p", "r" >>),
                                Lit(<< "q", "u", "e", "r", "y" >>) >>),
                         Lit(<< ":" >>) >>)),
           Star(OneOf(ReSpace)), Grp(2, Plus(AnyCh)), Eol >>)

\* Regexp.FindAllStringSubmatch(s, -1) for a pattern that matches no empty
\* text: the successive leftmost matches, each << match, group 1, ... >>.
RECURSIVE FindAllFrom(_, _, _, _)
FindAllFrom(re, n, s, i) ==
    LET m == ReFindFrom(re, s, i)
    IN  IF ~m.ok THEN << >>
        ELSE << << Slice(s, m.start, m.pos) >>
                   \o [g \in 1..n |-> Slice(s, m.caps[g][1], m.caps[g][2])] >>
             \o FindAllFrom(re, n, s, m.pos)

FindAllStringSubmatch(re, n, s) == FindAllFrom(re, n, s, 1)

\* "Remove quotes if present": the expression of a match.
MatchExpression(match) ==
    LET expression == TrimSpace(match[3])
    IN  IF HasPrefix(expression, DQuote) /\ HasSuffix(expression, DQuote)
        THEN TrimSet(expression, {"\""})
        ELSE IF HasPrefix(expression, SQuote) /\ HasSuffix(expression, SQuote)
        THEN TrimSet(expression, {"'"})
        ELSE expression

\* "Determine dominant style": the switch over the two counts.
\* A variant that prefers prefix on a tie.
DominantStylePrefixOnTie(postfixCount, prefixCount) ==
    IF postfixCount > prefixCount THEN AggregationStylePostfix
    ELSE IF prefixCount > postfixCount THEN AggregationStylePrefix
    ELSE IF postfixCount > 0 THEN AggregationStylePrefix
    ELSE AggregationStyleUnknown

DominantStyle(postfixCount, prefixCount) ==
    IF postfixCount > prefixCount THEN AggregationStylePostfix
    ELSE IF prefixCount > postfixCount THEN AggregationStylePrefix
    ELSE IF postfixCount > 0 THEN AggregationStylePostfix
    ELSE AggregationStyleUnknown

---------------------------------------------------------------------------
(* checkMetricNamingConventions                                            *)

\* "Skip standard Prometheus internal metrics".
standardMetrics ==
    << << "u", "p" >>, << "s", "c", "r", "a", "p", "e", "_", "d", "u", "r", "a", "t", "i", "o", "n", "_", "s", "e", "c", "o", "n", "d", "s" >>, << "s", "c", "r", "a", "p", "e", "_", "s", "a", "m", "p", "l", "e", "s", "_", "s", "c", "r", "a", "p", "e", "d" >>,
       << "s", "c", "r", "a", "p", "e", "_", "s", "a", "m", "p", "l", "e", "s", "_", "p", "o", "s", "t", "_", "m", "e", "t", "r", "i", "c", "_", "r", "e", "l", "a", "b", "e", "l", "i", "n", "g" >>, << "s", "c", "r", "a", "p", "e", "_", "s", "e", "r", "i", "e", "s", "_", "a", "d", "d", "e", "d" >> >>

\* A variant that skips no metric.
NoStandardMetric(metricName) == FALSE

IsStandardMetric(metricName) ==
    \E k \in 1..Len(standardMetrics) : metricName = standardMetrics[k]

NameStart == Lower \cup Upper \cup {"_", ":"}
NameRest == NameStart \cup Digit

\* ^[a-zA-Z_:][a-zA-Z0-9_:]*$
ValidNamePattern == Cat(<< Bot, OneOf(NameStart), Star(OneOf(NameRest)), Eot >>)

\* [a-z][A-Z]
CamelCasePattern == Cat(<< OneOf(Lower), OneOf(Upper) >>)

checkMetricNamingConventions(metricName) ==
    IF IsStandardMetric(metricName) THEN << >>
    ELSE (IF ~MatchString(ValidNamePattern, metricName)
          THEN << Issue("InvalidCharacters", << metricName >>) >> ELSE << >>)
         \o (IF MatchString(CamelCasePattern, metricName)
             THEN << Issue("CamelCase", << metricName >>) >> ELSE << >>)
         \o (IF ~Contains(metricName, << "_" >>) /\ ~Contains(metricName, << ":" >>)
             THEN << Issue("ApplicationPrefix", << metricName, metricName >>) >>
             ELSE << >>)

---------------------------------------------------------------------------
(* checkInstrumentationPatterns                                            *)

\* \b(rate|irate)\s*\(\s*([a-zA-Z_:][a-zA-Z0-9_:]*)\s*[\[\{]
RateRegex ==
    Cat(<< WordB, Grp(1, Alt(<< Lit(<< "r", "a", "t", "e" >>), Lit(<< "i", "r", "a", "t", "e" >>) >>)),
           Star(OneOf(ReSpace)), Lit(LParen), Star(OneOf(ReSpace)),
           Grp(2, Cat(<< OneOf(NameStart), Star(OneOf(NameRest)) >>)),
           Star(OneOf(ReSpace)), OneOf({"[", "{"}) >>)

\* "Only warn if it doesn't look like a counter".
LooksLikeCounter(metricName) ==
    \/ HasSuffix(metricName, << "_", "t", "o", "t", "a", "l" >>)
    \/ HasSuffix(metricName, << "_", "s", "e", "c", "o", "n", "d", "s", "_", "t", "o", "t", "a", "l" >>)
    \/ HasSuffix(metricName, << "_", "c", "o", "u", "n", "t" >>)
    \/ Contains(metricName, << "_", "s", "e", "c", "o", "n", "d", "s" >>)

RECURSIVE RateIssues(_)
\* The loop over the matches of rateRegex.
RateIssues(found) ==
    IF found = << >> THEN << >>
    ELSE (IF ~LooksLikeCounter(Head(found)[3])
          THEN << Issue("RateOnNonCounter", << Head(found)[2], Head(found)[3] >>) >>
          ELSE << >>)
         \o RateIssues(Tail(found))

\* A variant that takes only " or " for a protection.
ZeroProtectedByOrOnly(expr) == Contains(expr, << " ", "o", "r", " " >>)

\* The expression has one of the two texts that count as zero-protection.
ZeroProtected(expr) == Contains(expr, << " ", "o", "r", " " >>) \/ Contains(expr, << "!", "=", " ", "0" >>)

checkInstrumentationPatterns(expr) ==
    RateIssues(FindAllStringSubmatch(RateRegex, 2, expr))
        \o (IF Contains(expr, << " ", "/", " " >>) /\ ~ZeroProtected(expr)
            THEN << Issue("DivisionWithoutZeroProtection", << >>) >>
            ELSE << >>)

---------------------------------------------------------------------------
(* checkLabelNaming                                                        *)

\* (?:r)?, the match of r preferred to the empty one.
Opt(r) == Alt(<< r, Cat(<< >>) >>)

\* labelRegex: \{([^}]+)\}
LabelRegex == Cat(<< Lit(<< "{" >>), Grp(1, Plus(NoneOf({"}"}))), Lit(<< "}" >>) >>)

LabelStart == Lower \cup Upper \cup {"_"}
LabelRest == LabelStart \cup Digit

\* labelNameRegex: ^([a-zA-Z_][a-zA-Z0-9_]*)(?:\s*[!=]~?\s*.+)?$
LabelNameRegex ==
    Cat(<< Bot, Grp(1, Cat(<< OneOf(LabelStart), Star(OneOf(LabelRest)) >>)),
           Opt(Cat(<< Star(OneOf(ReSpace)), OneOf({"!", "="}), Opt(Lit(<< "~" >>)),
                      Star(OneOf(ReSpace)), Plus(AnyCh) >>)),
           Eot >>)

\* validLabelRegex: ^[a-zA-Z_][a-zA-Z0-9_]*$
ValidLabelRegex == Cat(<< Bot, OneOf(LabelStart), Star(OneOf(LabelRest)), Eot >>)

genericLabels == << << "t", "y", "p", "e" >> >>

\* Checks 1 to 3 of a label name that was not seen before.
LabelNameIssues(labelName) ==
    IF ~MatchString(ValidLabelRegex, labelName)
    THEN << Issue("InvalidLabelName", << labelName >>) >>
    ELSE (IF HasPrefix(labelName, << "_", "_" >>)
          THEN << Issue("DoubleLeadingUnderscore", << labelName >>) >>
          ELSE IF HasPrefix(labelName, << "_" >>)
          THEN << Issue("LeadingUnderscore", << labelName >>) >>
          ELSE << >>)
         \o (IF \E k \in 1..Len(genericLabels) : labelName = genericLabels[k]
             THEN << Issue("GenericLabelName", << labelName >>) >> ELSE << >>)

\* The locals the two loops carry: seenLabels and issues.
LabelLocals(seenLabels, found) == [seenLabels |-> seenLabels, issues |-> found]

\* The body of the loop over labelPairs.
LabelPairStep(pair, l) ==
    LET labelMatch == FindStringSubmatch(LabelNameRegex, 1, TrimSpace(pair))
    IN  IF Len(labelMatch) < 2 \/ labelMatch[2] \in l.seenLabels THEN l
        ELSE LabelLocals(l.seenLabels \cup { labelMatch[2] },
                         l.issues \o LabelNameIssues(labelMatch[2]))

RECURSIVE LabelPairs(_, _)
LabelPairs(labelPairs, l) ==
    IF labelPairs = << >> THEN l
    ELSE LabelPairs(Tail(labelPairs), LabelPairStep(Head(labelPairs), l))

RECURSIVE LabelSelectors(_, _)
\* The loop over the matches of labelRegex.
LabelSelectors(found, l) ==
    IF found = << >> THEN l
    ELSE LabelSelectors(Tail(found), LabelPairs(Split(Head(found)[2], Comma), l))

checkLabelNaming(expr) ==
    LabelSelectors(FindAllStringSubmatch(LabelRegex, 1, expr),
                   LabelLocals({}, << >>)).issues

---------------------------------------------------------------------------
(* checkMetricSuffixes, isCounterPattern                                   *)

counterKeywords ==
    << << "_", "c", "o", "u", "n", "t" >>,
       << "_", "r", "e", "q", "u", "e", "s", "t", "s" >>,
       << "_", "e", "r", "r", "o", "r", "s" >>,
       << "_", "f", "a", "i", "l", "u", "r", "e", "s" >>,
       << "_", "s", "u", "c", "c", "e", "s", "s" >>,
       << "_", "p", "r", "o", "c", "e", "s", "s", "e", "d" >>,
       << "_", "r", "e", "c", "e", "i", "v", "e", "d" >>,
       << "_", "s", "e", "n", "t" >>,
       << "_", "c", "r", "e", "a", "t", "e", "d" >>,
       << "_", "d", "e", "l", "e", "t", "e", "d" >> >>

isCounterPattern(metricName) ==
    IF HasSuffix(metricName, << "_", "t", "o", "t", "a", "l" >>) THEN FALSE
    ELSE \E k \in 1..Len(counterKeywords) : Contains(metricName, counterKeywords[k])

\* The map nonBaseUnits, as << nonBase, base >> pairs.  No key is a suffix of
\* another one, so a name ends with one key at most and the order in which
\* range visits the map does not show in the result.
nonBaseUnits ==
    << << << "_", "m", "i", "l", "l", "i", "s", "e", "c", "o", "n", "d", "s" >>, << "_", "s", "e", "c", "o", "n", "d", "s" >> >>,
       << << "_", "m", "i", "c", "r", "o", "s", "e", "c", "o", "n", "d", "s" >>, << "_", "s", "e", "c", "o", "n", "d", "s" >> >>,
       << << "_", "n", "a", "n", "o", "s", "e", "c", "o", "n", "d", "s" >>, << "_", "s", "e", "c", "o", "n", "d", "s" >> >>,
       << << "_", "m", "i", "n", "u", "t", "e", "s" >>, << "_", "s", "e", "c", "o", "n", "d", "s" >> >>,
       << << "_", "h", "o", "u", "r", "s" >>, << "_", "s", "e", "c", "o", "n", "d", "s" >> >>,
       << << "_", "d", "a", "y", "s" >>, << "_", "s", "e", "c", "o", "n", "d", "s" >> >>,
       << << "_", "k", "i", "l", "o", "b", "y", "t", "e", "s" >>, << "_", "b", "y", "t", "e", "s" >> >>,
       << << "_", "m", "e", "g", "a", "b", "y", "t", "e", "s" >>, << "_", "b", "y", "t", "e", "s" >> >>,
       << << "_", "g", "i", "g", "a", "b", "y", "t", "e", "s" >>, << "_", "b", "y", "t", "e", "s" >> >>,
       << << "_", "t", "e", "r", "a", "b", "y", "t", "e", "s" >>, << "_", "b", "y", "t", "e", "s" >> >>,
       << << "_", "m", "i", "l", "l", "i", "s" >>, << "_", "s", "e", "c", "o", "n", "d", "s" >> >>,
       << << "_", "m", "i", "c", "r", "o", "s" >>, << "_", "s", "e", "c", "o", "n", "d", "s" >> >>,
       << << "_", "n", "a", "n", "o", "s" >>, << "_", "s", "e", "c", "o", "n", "d", "s" >> >>,
       << << "_", "k", "b" >>, << "_", "b", "y", "t", "e", "s" >> >>,
       << << "_", "m", "b" >>, << "_", "b", "y", "t", "e", "s" >> >>,
       << << "_", "g", "b" >>, << "_", "b", "y", "t", "e", "s" >> >>,
       << << "_", "t", "b" >>, << "_", "b", "y", "t", "e", "s" >> >>,
       << << "_", "m", "s" >>, << "_", "s", "e", "c", "o", "n", "d", "s" >> >>,
       << << "_", "u", "s" >>, << "_", "s", "e", "c", "o", "n", "d", "s" >> >>,
       << << "_", "n", "s" >>, << "_", "s", "e", "c", "o", "n", "d", "s" >> >> >>

RECURSIVE NonBaseUnitIssues(_, _)
\* The loop over nonBaseUnits, from the k-th pair on.
NonBaseUnitIssues(metricName, k) ==
    IF k > Len(nonBaseUnits) THEN << >>
    ELSE (IF HasSuffix(metricName, nonBaseUnits[k][1])
          THEN << Issue("NonBaseUnit", << metricName, nonBaseUnits[k][2], nonBaseUnits[k][1] >>) >>
          ELSE << >>)
         \o NonBaseUnitIssues(metricName, k + 1)

checkMetricSuffixes(metricName) ==
    (IF isCounterPattern(metricName) /\ ~HasSuffix(metricName, << "_", "t", "o", "t", "a", "l" >>)
     THEN << Issue("CounterWithoutTotal", << metricName >>) >> ELSE << >>)
        \o NonBaseUnitIssues(metricName, 1)
        \o (IF Contains(metricName, << "_", "p", "e", "r", "c", "e", "n", "t" >>) \/ Contains(metricName, << "_", "p", "e", "r", "c", "e", "n", "t", "a", "g", "e" >>)
            THEN << Issue("Percentage", << metricName >>) >> ELSE << >>)

---------------------------------------------------------------------------
(* checkRecordingRuleNaming                                                *)

\* strings.TrimSuffix.
TrimSuffix(s, suffix) ==
    IF HasSuffix(s, suffix) THEN Slice(s, 1, Len(s) - Len(suffix) + 1) ELSE s

\* "for _, char := range metric": one of the characters is in 'A'..'Z'.
HasUppercase(s) == \E k \in 1..Len(s) : s[k] \in Upper

\* validOperationsRegex: ^[a-z0-9_]+$
ValidOperationsRegex == Cat(<< Bot, Plus(OneOf(Lower \cup Digit \cup {"_"})), Eot >>)

\* "If there's an operations component, validate it".
OperationsIssues(metricName, operations) ==
    (IF operations = << >>
     THEN << Issue("EmptyOperations", << metricName >>) >> ELSE << >>)
        \o (IF ~MatchString(ValidOperationsRegex, operations)
            THEN << Issue("InvalidOperations", << metricName >>) >> ELSE << >>)
        \o (IF operations = << "v", "a", "l", "u", "e" >>
            THEN << Issue("OperationsValue", << metricName >>) >> ELSE << >>)
        \o (IF operations = << "a", "v", "g" >>
            THEN << Issue("OperationsAvg", << metricName >>) >> ELSE << >>)

\* The checks of a name that holds a colon, parts what strings.Split made
\* of it.
RecordingRuleIssues(metricName, parts) ==
    IF Len(parts) < 2 THEN << Issue("RecordingRuleFormat", << metricName >>) >>
    ELSE (IF parts[1] = << >>
          THEN << Issue("EmptyLevel", << metricName >>) >> ELSE << >>)
         \o (IF parts[2] = << >>
             THEN << Issue("EmptyMetric", << metricName >>) >> ELSE << >>)
         \o (IF HasUppercase(parts[2])
             THEN << Issue("MetricComponentCase", << metricName >>) >> ELSE << >>)
         \o (IF Len(parts) >= 3 THEN OperationsIssues(metricName, parts[3]) ELSE << >>)
         \o (IF Contains(parts[2], << "_", "t", "o", "t", "a", "l" >>) /\ Len(parts) >= 3
                 /\ (Contains(parts[3], << "r", "a", "t", "e" >>) \/ Contains(parts[3], << "i", "r", "a", "t", "e" >>))
             THEN << Issue("TotalNotStripped",
                           << metricName, parts[1], TrimSuffix(parts[2], << "_", "t", "o", "t", "a", "l" >>), parts[3] >>) >>
             ELSE << >>)

checkRecordingRuleNaming(metricName) ==
    IF ~Contains(metricName, << ":" >>) THEN << >>
    ELSE RecordingRuleIssues(metricName, Split(metricName, << ":" >>))

---------------------------------------------------------------------------
(* checkPrometheusBestPractices: the checks of one metric name             *)

\* The body of the loop over metricNames.
MetricNameIssues(metricName) ==
    checkMetricNamingConventions(metricName)
        \o checkMetricSuffixes(metricName)
        \o checkRecordingRuleNaming(metricName)

---------------------------------------------------------------------------
(* extractMetricNames, isPromQLKeyword                                     *)

MetricStart == Lower \cup Upper \cup {"_", ":"}
MetricRest == MetricStart \cup Digit

\* metricRegex: \b([a-zA-Z_:][a-zA-Z0-9_:]*)\s*(?:[{\[\s)]|$)
MetricRegex ==
    Cat(<< WordB, Grp(1, Cat(<< OneOf(MetricStart), Star(OneOf(MetricRest)) >>)),
           Star(OneOf(ReSpace)),
           Alt(<< OneOf({"{", "[", ")"} \cup ReSpace), Eot >>) >>)

keywords ==
    { << "s", "u", "m" >>,
      << "m", "i", "n" >>,
      << "m", "a", "x" >>,
      << "a", "v", "g" >>,
      << "g", "r", "o", "u", "p" >>,
      << "s", "t", "d", "d", "e", "v" >>,
      << "s", "t", "d", "v", "a", "r" >>,
      << "c", "o", "u", "n", "t" >>,
      << "c", "o", "u", "n", "t", "_", "v", "a", "l", "u", "e", "s" >>,
      << "b", "o", "t", "t", "o", "m", "k" >>,
      << "t", "o", "p", "k" >>,
      << "q", "u", "a", "n", "t", "i", "l", "e" >>,
      << "a", "n", "d" >>,
      << "o", "r" >>,
      << "u", "n", "l", "e", "s", "s" >>,
      << "b", "y" >>,
      << "w", "i", "t", "h", "o", "u", "t" >>,
      << "o", "n" >>,
      << "i", "g", "n", "o", "r", "i", "n", "g" >>,
      << "g", "r", "o", "u", "p", "_", "l", "e", "f", "t" >>,
      << "g", "r", "o", "u", "p", "_", "r", "i", "g", "h", "t" >>,
      << "r", "a", "t", "e" >>,
      << "i", "r", "a", "t", "e" >>,
      << "i", "n", "c", "r", "e", "a", "s", "e" >>,
      << "d", "e", "l", "t", "a" >>,
      << "i", "d", "e", "l", "t", "a" >>,
      << "d", "e", "r", "i", "v" >>,
      << "p", "r", "e", "d", "i", "c", "t", "_", "l", "i", "n", "e", "a", "r" >>,
      << "h", "i", "s", "t", "o", "g", "r", "a", "m", "_", "q", "u", "a", "n", "t", "i", "l", "e" >>,
      << "l", "a", "b", "e", "l", "_", "r", "e", "p", "l", "a", "c", "e" >>,
      << "l", "a", "b", "e", "l", "_", "j", "o", "i", "n" >>,
      << "l", "n" >>,
      << "l", "o", "g", "2" >>,
      << "l", "o", "g", "1", "0" >>,
      << "a", "b", "s" >>,
      << "c", "e", "i", "l" >>,
      << "f", "l", "o", "o", "r" >>,
      << "r", "o", "u", "n", "d" >>,
      << "e", "x", "p" >>,
      << "s", "q", "r", "t" >>,
      << "t", "i", "m", "e" >>,
      << "v", "e", "c", "t", "o", "r" >>,
      << "s", "c", "a", "l", "a", "r" >>,
      << "s", "o", "r", "t" >>,
      << "s", "o", "r", "t", "_", "d", "e", "s", "c" >>,
      << "t", "i", "m", "e", "s", "t", "a", "m", "p" >>,
      << "a", "b", "s", "e", "n", "t" >>,
      << "a", "b", "s", "e", "n", "t", "_", "o", "v", "e", "r", "_", "t", "i", "m", "e" >>,
      << "c", "h", "a", "n", "g", "e", "s" >>,
      << "c", "l", "a", "m", "p", "_", "m", "a", "x" >>,
      << "c", "l", "a", "m", "p", "_", "m", "i", "n" >>,
      << "d", "a", "y", "_", "o", "f", "_", "m", "o", "n", "t", "h" >>,
      << "d", "a", "y", "_", "o", "f", "_", "w", "e", "e", "k" >>,
      << "d", "a", "y", "s", "_", "i", "n", "_", "m", "o", "n", "t", "h" >>,
      << "h", "o", "u", "r" >>,
      << "m", "i", "n", "u", "t", "e" >>,
      << "m", "o", "n", "t", "h" >>,
      << "y", "e", "a", "r" >>,
      << "r", "e", "s", "e", "t", "s" >>,
      << "a", "v", "g", "_", "o", "v", "e", "r", "_", "t", "i", "m", "e" >>,
      << "m", "i", "n", "_", "o", "v", "e", "r", "_", "t", "i", "m", "e" >>,
      << "m", "a", "x", "_", "o", "v", "e", "r", "_", "t", "i", "m", "e" >>,
      << "s", "u", "m", "_", "o", "v", "e", "r", "_", "t", "i", "m", "e" >>,
      << "c", "o", "u", "n", "t", "_", "o", "v", "e", "r", "_", "t", "i", "m", "e" >>,
      << "q", "u", "a", "n", "t", "i", "l", "e", "_", "o", "v", "e", "r", "_", "t", "i", "m", "e" >>,
      << "s", "t", "d", "d", "e", "v", "_", "o", "v", "e", "r", "_", "t", "i", "m", "e" >>,
      << "s", "t", "d", "v", "a", "r", "_", "o", "v", "e", "r", "_", "t", "i", "m", "e" >>,
      << "l", "a", "s", "t", "_", "o", "v", "e", "r", "_", "t", "i", "m", "e" >>,
      << "p", "r", "e", "s", "e", "n", "t", "_", "o", "v", "e", "r", "_", "t", "i", "m", "e" >> }

isPromQLKeyword(s) == ToLower(s) \in keywords

\* The keys of the map metricNames after the loop over the matches.
MetricNameKeys(expr) ==
    LET found == FindAllStringSubmatch(MetricRegex, 1, expr)
    IN  { found[k][2] : k \in { j \in 1..Len(found) : ~isPromQLKeyword(found[j][2]) } }

\* The orders in which a range over a map of these keys may yield them:
\* "the iteration order over maps is not specified and is not guaranteed to
\* be the same from one iteration to the next".
IterationOrders(keys) ==
    { order \in [1..Cardinality(keys) -> keys] :
        \A i, j \in 1..Cardinality(keys) : order[i] = order[j] => i = j }

\* What extractMetricNames may return.
extractMetricNames(expr) == IterationOrders(MetricNameKeys(expr))

---------------------------------------------------------------------------
(* checkUtilizationDivisor, checkSyntheticMetrics, checkVariableNaming     *)

Utilization == << "u", "t", "i", "l", "i", "z", "a", "t", "i", "o", "n" >>

\* hasTotal, for the metric names of the denominator.
HasTotal(denominatorMetrics) ==
    \E metric \in denominatorMetrics :
       \/ Contains(ToLower(metric), << "_", "t", "o", "t", "a", "l" >>)
       \/ HasSuffix(ToLower(metric), << "t", "o", "t", "a", "l" >>)

\* Both loops stop at the first name that fits: the order of the names
\* does not show in the result.
checkUtilizationDivisor(expr) ==
    IF ~Contains(expr, << " ", "/", " " >>) THEN << >>
    ELSE IF ~\E name \in MetricNameKeys(expr) : Contains(ToLower(name), Utilization)
    THEN << >>
    ELSE LET parts == splitByBinaryOperator(expr, << " ", "/", " " >>)
         IN  IF Len(parts) # 2 THEN << >>
             ELSE IF ~HasTotal(MetricNameKeys(TrimSpace(parts[2])))
             THEN << Issue("UtilizationDivisor", << >>) >>
             ELSE << >>

\* upRegex: \bup(?:\s*(\{[^}]*\}))?(?:\s*\[|[\)\s,]|$)
UpRegex ==
    Cat(<< WordB, Lit(<< "u", "p" >>),
           Opt(Cat(<< Star(OneOf(ReSpace)),
                      Grp(1, Cat(<< Lit(<< "{" >>), Star(NoneOf({"}"})), Lit(<< "}" >>) >>)) >>)),
           Alt(<< Cat(<< Star(OneOf(ReSpace)), Lit(<< "[" >>) >>),
                  OneOf({")", ","} \cup ReSpace), Eot >>) >>)

\* job\s*=~?
JobRegex ==
    Cat(<< Lit(<< "j", "o", "b" >>), Star(OneOf(ReSpace)), Lit(<< "=" >>),
           Opt(Lit(<< "~" >>)) >>)

RECURSIVE SyntheticIssues(_)
\* The loop over the matches of upRegex.
SyntheticIssues(found) ==
    IF found = << >> THEN << >>
    ELSE (IF Len(Head(found)) > 1 /\ Head(found)[2] # << >>
             /\ MatchString(JobRegex, Head(found)[2])
          THEN << >>
          ELSE << Issue("SyntheticUpWithoutJob", << >>) >>)
         \o SyntheticIssues(Tail(found))

checkSyntheticMetrics(expr) == SyntheticIssues(FindAllStringSubmatch(UpRegex, 1, expr))

\* validMetricRegex: ^[a-zA-Z_:][a-zA-Z0-9_:]*$
ValidMetricRegex == Cat(<< Bot, OneOf(MetricStart), Star(OneOf(MetricRest)), Eot >>)

metricTypes ==
    << << "_", "g", "a", "u", "g", "e" >>, << "_", "c", "o", "u", "n", "t", "e", "r" >>,
       << "_", "s", "u", "m", "m", "a", "r", "y" >>,
       << "_", "h", "i", "s", "t", "o", "g", "r", "a", "m" >> >>

RECURSIVE MetricTypeIssues(_, _)
\* "Check 4: Don't put metric type in the name", from metricTypes[k] on.
MetricTypeIssues(metricName, k) ==
    IF k > Len(metricTypes) THEN << >>
    ELSE (IF HasSuffix(metricName, metricTypes[k])
          THEN << Issue("MetricTypeInName", << metricName, metricTypes[k] >>) >>
          ELSE << >>)
         \o MetricTypeIssues(metricName, k + 1)

\* The body of the loop of checkVariableNaming.
VariableNameIssues(metricName) ==
    IF ~MatchString(ValidMetricRegex, metricName)
    THEN << Issue("InvalidMetricName", << metricName >>) >>
    ELSE (IF Contains(metricName, << ":" >>) /\ Len(Split(metricName, << ":" >>)) < 2
          THEN << Issue("ColonInMetricName", << metricName >>) >> ELSE << >>)
         \o (IF HasUppercase(metricName)
             THEN << Issue("MetricNameCase", << metricName >>) >> ELSE << >>)
         \o MetricTypeIssues(metricName, 1)

RECURSIVE IssuesInOrder(_, _)
\* The issues a loop over the names appends, body the issues of one name.
IssuesInOrder(metricNames, body) ==
    IF metricNames = << >> THEN << >>
    ELSE body[Head(metricNames)] \o IssuesInOrder(Tail(metricNames), body)

\* What checkVariableNaming may return.
checkVariableNaming(expr) ==
    { IssuesInOrder(metricNames, [n \in MetricNameKeys(expr) |-> VariableNameIssues(n)]) :
        metricNames \in extractMetricNames(expr) }

---------------------------------------------------------------------------
(* checkPrometheusBestPractices                                            *)

\* The slice checkPrometheusBestPractices builds when its range over
\* metricNames yields the names in this order and checkVariableNaming
\* returns variableIssues.
BestPracticeIssues(expr, metricNames, variableIssues) ==
    IssuesInOrder(metricNames, [n \in MetricNameKeys(expr) |-> MetricNameIssues(n)])
        \o variableIssues
        \o checkLabelNaming(expr)
        \o checkInstrumentationPatterns(expr)
        \o checkUtilizationDivisor(expr)
        \o checkSyntheticMetrics(expr)

\* What checkPrometheusBestPractices may return.
checkPrometheusBestPractices(expr) ==
    { BestPracticeIssues(expr, metricNames, variableIssues) :
        metricNames \in extractMetricNames(expr),
        variableIssues \in checkVariableNaming(expr) }

---------------------------------------------------------------------------
(* package alertmanager: roundToSensibleDuration, AnalyzeAlert.  A         *)
(* time.Duration is counted in milliseconds here (in nanoseconds in the    *)
(* program); the functions compare, add and halve durations only.          *)

Second == 1000
Minute == 60 * Second
Hour == 60 * Minute

sensibleDurations ==
    << 30 * Second, 1 * Minute, 2 * Minute, 5 * Minute, 10 * Minute, 15 * Minute,
       30 * Minute, 1 * Hour, 2 * Hour, 6 * Hour, 12 * Hour, 24 * Hour >>

RECURSIVE RoundFromBelow(_, _)
\* A variant whose test is d < sd.
RoundFromBelow(d, k) ==
    IF k > Len(sensibleDurations) THEN sensibleDurations[Len(sensibleDurations)]
    ELSE IF d < sensibleDurations[k] THEN sensibleDurations[k]
    ELSE RoundFromBelow(d, k + 1)

RECURSIVE RoundFrom(_, _)
\* The loop over sensibleDurations, from the k-th on, and the return after it.
RoundFrom(d, k) ==
    IF k > Len(sensibleDurations) THEN sensibleDurations[Len(sensibleDurations)]
    ELSE IF d <= sensibleDurations[k] THEN sensibleDurations[k]
    ELSE RoundFrom(d, k + 1)

roundToSensibleDuration(d) == RoundFrom(d, 1)

\* An AlertEvent; AnalyzeAlert reads its Duration only.
AlertEvent(duration) == [Duration |-> duration]

\* The locals of the first loop of AnalyzeAlert: totalDuration and the two
\* fields of analysis it assigns, all zero before the loop.
RECURSIVE DurationStatistics(_, _, _)
DurationStatistics(events, i, l) ==
    IF i > Len(events) THEN l
    ELSE DurationStatistics(events, i + 1,
            [totalDuration |-> l.totalDuration + events[i].Duration,
             MinDuration |-> IF l.MinDuration = 0 \/ events[i].Duration < l.MinDuration
                             THEN events[i].Duration ELSE l.MinDuration,
             MaxDuration |-> IF events[i].Duration > l.MaxDuration
                             THEN events[i].Duration ELSE l.MaxDuration])

RECURSIVE InsertSorted(_, _)
InsertSorted(sorted, d) ==
    IF sorted = << >> THEN << d >>
    ELSE IF d < Head(sorted) THEN << d >> \o sorted
    ELSE << Head(sorted) >> \o InsertSorted(Tail(sorted), d)

RECURSIVE SortDurations(_)
\* sort.Slice(durations, less) with less the order of the numbers.
SortDurations(durations) ==
    IF durations = << >> THEN << >>
    ELSE InsertSorted(SortDurations(Tail(durations)), Head(durations))

\* "Calculate median", of the sorted durations.
Median(durations) ==
    IF Len(durations) % 2 = 0
    THEN (durations[Len(durations) \div 2] + durations[Len(durations) \div 2 + 1]) \div 2
    ELSE durations[Len(durations) \div 2 + 1]

\* int(float64(len(durations)) * 0.3), capped at the last index; an index
\* from 0.  For the lengths below 10 the product is no whole number, so
\* that the conversion is the floor of 3 * len / 10.
Percentile30(n) ==
    IF (3 * n) \div 10 >= n THEN n - 1 ELSE (3 * n) \div 10

\* analysis.Reasoning: the format and what it is filled with.
Reasoning(spuriousAlerts, n, recommended) ==
    IF spuriousAlerts > 0
    THEN Issue("SpuriousAlerts", << spuriousAlerts, n, recommended >>)
    ELSE Issue("NoSpuriousAlerts", << >>)

\* The analysis once the statistics l and the sorted durations are known.
AnalysisOf(alertName, events, l, durations, recommended) ==
    [AlertName |-> alertName,
     FiringCount |-> Len(events),
     AvgDuration |-> l.totalDuration \div Len(events),
     MedianDuration |-> Median(durations),
     MinDuration |-> l.MinDuration,
     MaxDuration |-> l.MaxDuration,
     RecommendedFor |-> recommended,
     SpuriousAlerts |-> Len(SelectSeq(durations, LAMBDA d : d < recommended)),
     Reasoning |-> Reasoning(Len(SelectSeq(durations, LAMBDA d : d < recommended)),
                             Len(events), recommended)]

\* The durations are not negative (they are the time between two samples),
\* so that Go's division is \div.
AnalyzeAlert(alertName, events) ==
    IF Len(events) = 0
    THEN [AlertName |-> alertName, FiringCount |-> 0, AvgDuration |-> 0,
          MedianDuration |-> 0, MinDuration |-> 0, MaxDuration |-> 0,
          RecommendedFor |-> 0, SpuriousAlerts |-> 0, Reasoning |-> << >>]
    ELSE LET durations == SortDurations([i \in 1..Len(events) |-> events[i].Duration])
         IN  AnalysisOf(alertName, events,
                        DurationStatistics(events, 1,
                            [totalDuration |-> 0, MinDuration |-> 0, MaxDuration |-> 0]),
                        durations,
                        roundToSensibleDuration(durations[Percentile30(Len(durations)) + 1]))

---------------------------------------------------------------------------
(* Inputs. An expression is rendered from a structure, so that what the   *)
(* program makes of the text can be compared with what the text was built  *)
(* from.                                                                   *)

\* Bounds of the inputs.
MaxNesting == 2
MaxLabels == 2
MaxCalls == 2
MaxRules == 3

\* Function calls nested around the metric of an aggregation's argument.
Wrappers == << << "r", "a", "t", "e" >>, << "a", "b", "s" >>,
               << "c", "e", "i", "l" >> >>

RECURSIVE Inner(_)
Inner(depth) ==
    IF depth = 0 THEN << "a" >>
    ELSE IF depth = 1 THEN Wrappers[1] \o << "(", "a", "[", "5", "m", "]", ")" >>
    ELSE Wrappers[IF depth <= Len(Wrappers) THEN depth ELSE 2]
             \o LParen \o Inner(depth - 1) \o RParen

LabelNames == << << "x" >>, << "y" >>, << "z" >>, << "w" >> >>

Operand(agg, depth, form, kw, gap, labels, sep) ==
    [agg |-> agg, inner |-> Inner(depth), form |-> form, kw |-> kw, gap |-> gap,
     labels |-> labels, sep |-> sep]

\* The operands: aggregations without a clause, with a postfix clause
\* "agg(inner) kw (labels)" and with a prefix clause "agg kw (labels) (inner)".
OperandInputs ==
    { Operand(<< "s", "u", "m" >>, 0, "bare", << >>, << >>, << >>, << >>) }
    \cup { Operand(agg, depth, "postfix", KwBy, << " " >>, << LabelNames[1] >>, << ",", " " >>) :
             agg \in { << "s", "u", "m" >> }, depth \in 0..MaxNesting }
    \cup { Operand(agg, 0, "postfix", KwBy, << " " >>, << LabelNames[1] >>, << ",", " " >>) :
             agg \in { << "c", "o", "u", "n", "t" >>, << "g", "r", "o", "u", "p" >> } }
    \cup { Operand(<< "s", "u", "m" >>, 0, "postfix", KwBy, << " " >>, SubSeq(LabelNames, 1, n), sep) :
             n \in 2..MaxLabels, sep \in { << ",", " " >>, << " ", "," >> } }
    \cup { Operand(<< "s", "u", "m" >>, 0, "postfix", KwWithout, << " " >>, << LabelNames[1] >>, << ",", " " >>),
           Operand(<< "s", "u", "m" >>, MaxNesting, "postfix", KwWithout, << " " >>,
                   << << "s", "t", "a", "n", "d", "b", "y" >> >>, << ",", " " >>) }
    \cup { Operand(<< "s", "u", "m" >>, 0, "postfix", KwBy, gap, << LabelNames[2] >>, << ",", " " >>) :
             gap \in { << >>, << " " >> } }
    \cup { Operand(<< "s", "u", "m" >>, 0, "postfix", KwBy, << " " >>,
                   << << "w", "i", "t", "h", "o", "u", "t", "_", "t", "l", "s" >> >>, << ",", " " >>) }
    \cup { Operand(<< "s", "u", "m" >>, 0, "prefix", kw, << " " >>, << LabelNames[1] >>, << ",", " " >>) :
             kw \in { KwBy, KwWithout } }

ClauseText(o) == o.kw \o o.gap \o LParen \o Join(o.labels, o.sep) \o RParen

RenderOperand(o) ==
    CASE o.form = "bare" -> o.agg \o LParen \o o.inner \o RParen
      [] o.form = "postfix" ->
           o.agg \o LParen \o o.inner \o RParen \o << " " >> \o ClauseText(o)
      [] o.form = "prefix" ->
           o.agg \o << " " >> \o ClauseText(o) \o << " " >> \o LParen \o o.inner \o RParen

\* Binary expressions "L op R": every pair of operands under the division,
\* and every operand against itself and against a bare aggregation under the
\* other operators.
BinaryInputs ==
    { [kind |-> "binary", left |-> l, op |-> BinaryOps[1], right |-> r] :
        l \in OperandInputs, r \in OperandInputs }
    \cup UNION { { [kind |-> "binary", left |-> l, op |-> BinaryOps[k], right |-> r] :
                     r \in { l, Operand(<< "s", "u", "m" >>, 0, "bare", << >>, << >>, << >>, << >>) },
                     k \in 2..Len(BinaryOps) } :
                 l \in OperandInputs }

\* Expressions of a given number of bytes: a base expression whose leading
\* metric name is lengthened.
PaddedBases ==
    { << "a" >>,
      << "a", "{", "c", "=", "\"", "C3", "A9", "\"", "}" >>,
      << "a", " ", "a", "n", "d", " ", "b" >>,
      << "a", "{", "c", "=", "\"", "C3", "A9", "\"", "}", " ", "o", "r", " ", "b" >>,
      << "a", " ", "a", "n", "d", " ", "b", " ", "o", "r", " ", "c" >>,
      << "a", " ", "A", "N", "D", " ", "b", " ", "u", "n", "l", "e", "s", "s", " ", "c" >>,
      << "a", " ", "a", "n", "d", " ", "o", "n", "(", "x", ")", " ", "b" >>,
      << "a", " ", "a", "n", "d", " ", "o", "n", " ", "(", "x", ")", " ", "b" >>,
      << "a", "{", "c", "=", "\"", "x", " ", "o", "r", " ", "y", " ", "a", "n", "d", " ", "z", "\"", "}" >>,
      << "a", " ", "b", "y", " ", "b", "y", " ", "b" >>,
      << "s", "u", "m", "(", "a", ")", " ", "b", "y", "(", "x", ")", " ", "/", " ", "s", "u", "m", "(", "b", ")", " ", "b", "y", "(", "x", ")" >>,
      << "s", "u", "m", "(", "a", ")", " ", "w", "i", "t", "h", "o", "u", "t", "(", "x", ")", " ", "/", " ", "s", "u", "m", "(", "b", ")", " ", "w", "i", "t", "h", "o", "u", "t", " ", "(", "x", ")" >>,
      << "s", "u", "m", "(", "a", ")", " ", "b", "y", " ", "(", "x", ")", " ", "/", " ", "s", "u", "m", "(", "b", ")", " ", "b", "y", " ", "(", "x", ")" >>,
      << "a", " ", "a", "n", "d", " ", "i", "g", "n", "o", "r", "i", "n", "g", "(", "x", ")", " ", "b" >> }

PaddedInputs ==
    UNION { { [kind |-> "padded", base |-> b, pad |-> n] :
                n \in {0} \cup { LineLengthLimit - Len(b) + d : d \in -1..1 } } :
            b \in PaddedBases }

\* Expressions of one operand: an aggregation on its own, with and without
\* white space around it, and one with a clause of no labels.
SingleInputs ==
    { [kind |-> "single", operand |-> o, margin |-> n] :
        o \in OperandInputs, n \in 0..1 }
    \cup { [kind |-> "single", margin |-> 0,
            operand |-> Operand(<< "s", "u", "m" >>, 0, "postfix", KwBy, << " " >>,
                                << >>, << ",", " " >>)] }

\* Binary expressions compared with a number: "L / R cmp 0".
ComparedInputs ==
    { [kind |-> "compared", left |-> l, op |-> BinaryOps[1], right |-> r,
       cmp |-> ComparisonOps[k]] :
        l \in { Operand(<< "s", "u", "m" >>, 0, form, IF form = "bare" THEN << >> ELSE KwBy,
                        IF form = "bare" THEN << >> ELSE << " " >>,
                        IF form = "bare" THEN << >> ELSE << LabelNames[1] >>,
                        IF form = "bare" THEN << >> ELSE << ",", " " >>) :
                   form \in { "bare", "postfix" } },
        r \in { o \in OperandInputs : o.agg = << "s", "u", "m" >> /\ o.inner = Inner(0)
                                        /\ o.kw \in { << >>, KwBy } /\ Len(o.labels) <= 1
                                        /\ o.gap \in { << >>, << " " >> }
                                        /\ \A n \in 1..Len(o.labels) : Len(o.labels[n]) = 1 },
        k \in 1..Len(ComparisonOps) }

RenderInput(in) ==
    CASE in.kind = "binary" ->
           RenderOperand(in.left) \o in.op \o RenderOperand(in.right)
      [] in.kind = "compared" ->
           RenderOperand(in.left) \o in.op \o RenderOperand(in.right) \o in.cmp \o << "0" >>
      [] in.kind = "padded" -> Repeat("m", in.pad) \o in.base
      [] in.kind = "single" ->
           Repeat(" ", in.margin) \o RenderOperand(in.operand) \o Repeat(" ", in.margin)


\* The expr: fields of a document's rules, each with the style its text is
\* written in.
RuleInputs ==
    { [text |-> << "u", "p", " ", "=", "=", " ", "0" >>, style |-> AggregationStyleUnknown],
      [text |-> << "s", "u", "m", "(", "a", ")", " ", "b", "y", " ", "(", "x", ")", " ", "/", " ", "s", "u", "m", "(", "b", ")", " ", "b", "y", " ", "(", "x", ")" >>,
       style |-> AggregationStylePostfix],
      [text |-> << "\"", "a", "v", "g", " ", "b", "y", " ", "(", "x", ")", " ", "(", "b", ")", "\"" >>, style |-> AggregationStylePrefix] }

RECURSIVE SeqsUpTo(_, _)
SeqsUpTo(S, n) ==
    IF n = 0 THEN { << >> }
    ELSE LET shorter == SeqsUpTo(S, n - 1)
         IN  shorter \cup { Append(q, x) : q \in { r \in shorter : Len(r) = n - 1 },
                                            x \in S }

DocumentInputs ==
    { [kind |-> "document", rules |-> rs] : rs \in SeqsUpTo(RuleInputs, MaxRules) }

RECURSIVE RuleLines(_)
RuleLines(rules) ==
    IF rules = << >> THEN << >>
    ELSE << << " ", " ", "-", " ", "a", "l", "e", "r", "t", ":", " ", "A" >>,
            << " ", " ", " ", " ", "e", "x", "p", "r", ":", " " >> \o Head(rules).text >>
         \o RuleLines(Tail(rules))

RenderDocument(in) == Join(<< << "r", "u", "l", "e", "s", ":" >> >> \o RuleLines(in.rules), NL)

\* Documents whose fields differ in where they stand: the indentation of
\* the key, the key, the space after it, a blank line before the field, and
\* a line after it. A field's expression is multi-line always, never, or by
\* its length only.
MaxFields == 2

FieldInputs ==
    { [indent |-> << " ", " ", " ", " " >>, key |-> << "e", "x", "p", "r", ":" >>, gap |-> << " " >>, blank |-> FALSE,
       multiline |-> "always", text |-> << "s", "u", "m", "(", "a", ")", " ", "b", "y", " ", "(", "x", ")", " ", "/", " ", "s", "u", "m", "(", "b", ")", " ", "b", "y", " ", "(", "x", ")" >>],
      [indent |-> << " ", " ", " ", " ", " ", " " >>, key |-> << "e", "x", "p", "r", ":" >>, gap |-> << " " >>, blank |-> TRUE,
       multiline |-> "always", text |-> << "s", "u", "m", "(", "a", ")", " ", "b", "y", " ", "(", "x", ")", " ", "/", " ", "s", "u", "m", "(", "b", ")", " ", "b", "y", " ", "(", "x", ")" >>],
      [indent |-> << "\t" >>, key |-> << "q", "u", "e", "r", "y", ":" >>, gap |-> << " " >>, blank |-> FALSE,
       multiline |-> "always", text |-> << "s", "u", "m", "(", "a", ")", " ", "w", "i", "t", "h", "o", "u", "t", " ", "(", "x", ")", " ", "/", " ", "s", "u", "m", "(", "b", ")", " ", "w", "i", "t", "h", "o", "u", "t", " ", "(", "x", ")" >>],
      [indent |-> << " ", " ", " ", " " >>, key |-> << "e", "x", "p", "r", ":" >>, gap |-> << " " >>, blank |-> TRUE,
       multiline |-> "never", text |-> << "u", "p", " ", "=", "=", " ", "0" >>],
      [indent |-> << " ", " " >>, key |-> << "e", "x", "p", "r", ":" >>, gap |-> << " ", " " >>, blank |-> FALSE,
       multiline |-> "length", text |-> Repeat("m", LineLengthLimit + 1)] }

LayoutInputs ==
    { [kind |-> "layout", fields |-> fs] : fs \in SeqsUpTo(FieldInputs, MaxFields) }

\* The lines of a document around the lines of its fields; written[k] is
\* the lines the k-th field is written in.
RECURSIVE LayoutLines(_, _, _)
LayoutLines(fields, written, k) ==
    IF k > Len(fields) THEN << >>
    ELSE << << " ", " ", "-", " ", "a", "l", "e", "r", "t", ":", " ", "A" >> >>
         \o (IF fields[k].blank THEN << << >> >> ELSE << >>)
         \o written[k]
         \o << fields[k].indent \o << "f", "o", "r", ":", " ", "5", "m" >> >>
         \o LayoutLines(fields, written, k + 1)

FieldLine(f) == << f.indent \o f.key \o f.gap \o f.text >>

RenderLayout(in) ==
    Join(<< << "r", "u", "l", "e", "s", ":" >> >>
             \o LayoutLines(in.fields, [k \in 1..Len(in.fields) |-> FieldLine(in.fields[k])], 1),
         NL)

\* Metric names: every text of up to MaxNameLen of the bytes of NameBytes,
\* the names of the tests, the standard metrics and names that differ from
\* one in a byte.
MaxNameLen == 3

NameBytes == { "a", "B", "_", ":", "1" }

NameInputs ==
    { [kind |-> "name", text |-> t] :
        t \in (SeqsUpTo(NameBytes, MaxNameLen) \ { << >> })
               \cup { standardMetrics[k] : k \in 1..Len(standardMetrics) }
               \cup { << "h", "t", "t", "p", "_", "r", "e", "q", "u", "e", "s", "t", "s", "_", "t", "o", "t", "a", "l" >>, << "h", "t", "t", "p", "R", "e", "q", "u", "e", "s", "t", "s", "T", "o", "t", "a", "l" >>, << "r", "e", "q", "u", "e", "s", "t", "s" >>,
                      << "j", "o", "b", ":", "h", "t", "t", "p", "_", "r", "e", "q", "u", "e", "s", "t", "s", ":", "r", "a", "t", "e", "5", "m" >>, << "U", "P" >>, << "s", "c", "r", "a", "p", "e", "_", "s", "e", "r", "i", "e", "s" >>,
                      << "h", "t", "t", "p", "-", "R", "e", "q", "u", "e", "s", "t", "s" >> } }

\* Expressions "N d D t": a numerator, the operator as it is written, a
\* denominator and what follows it; spaced says that the operator is a
\* slash between two spaces, guard what protection the text has.
QuotientInputs ==
    { [kind |-> "quotient", num |-> n, op |-> o, den |-> d, tail |-> t] :
        n \in { << "s", "u", "m", "(", "a", ")" >>, << "r", "a", "t", "e", "(", "a", "[", "5", "m", "]", ")" >>, << "s", "u", "m", "(", "i", "r", "a", "t", "e", "(", "a", "_", "t", "o", "t", "a", "l", "{", "c", "=", "\\", "\"", "d", "\\", "\"", "}", "[", "5", "m", "]", ")", ")" >> },
        o \in { [text |-> << " ", "/", " " >>, spaced |-> TRUE], [text |-> << "/" >>, spaced |-> FALSE],
                [text |-> << " ", "/" >>, spaced |-> FALSE], [text |-> << " ", "*", " " >>, spaced |-> FALSE] },
        d \in { [text |-> << "s", "u", "m", "(", "b", ")" >>, guard |-> FALSE],
                [text |-> << "s", "u", "m", "(", "b", "{", "c", "!", "=", " ", "0", "}", ")" >>, guard |-> TRUE],
                [text |-> << "(", "s", "u", "m", "(", "b", ")", " ", "!", "=", " ", "0", ")" >>, guard |-> TRUE],
                [text |-> << "s", "u", "m", "(", "b", "{", "c", "!", "=", "0", "}", ")" >>, guard |-> FALSE] },
        t \in { [text |-> << >>, guard |-> FALSE], [text |-> << " ", "o", "r", " ", "0" >>, guard |-> TRUE],
                [text |-> << " ", "O", "R", " ", "0" >>, guard |-> FALSE],
                [text |-> << " ", "o", "r", " ", "v", "e", "c", "t", "o", "r", "(", "1", ")" >>, guard |-> TRUE],
                [text |-> << " ", ">", " ", "0" >>, guard |-> FALSE] } }

RenderQuotient(in) == in.num \o in.op.text \o in.den.text \o in.tail.text

\* Label matchers: a label name, and the operator and quoted value that
\* follow it; the values include a regular expression with a quantifier in
\* braces and one with a comma.
MaxMatchers == 2

MatcherInputs ==
    { [name |-> n, rest |-> r] :
        n \in { << "j", "o", "b" >>, << "_", "a" >>, << "_", "_", "b" >>, << "t", "y", "p", "e" >> },
        r \in { << "=", "\"", "x", "\"" >>, << "=", "~", "\"", "a", "{", "2", "}", "\"" >>,
                << "!", "=", "\"", "a", ",", "b", "\"" >> } }

\* Expressions "m{..}" and "m{..} + m{..}": the matchers of the first
\* selector, and the one of the second if there is a second.
SelectorInputs ==
    { [kind |-> "selectors", first |-> f, second |-> s] :
        f \in SeqsUpTo(MatcherInputs, MaxMatchers) \ { << >> },
        s \in { << >> } \cup { << m >> : m \in { x \in MatcherInputs : x.rest = << "=", "\"", "x", "\"" >> } } }

RenderSelector(matchers) ==
    << "m", "{" >> \o Join([k \in 1..Len(matchers) |-> matchers[k].name \o matchers[k].rest],
                          << ",", " " >>) \o << "}" >>

RenderSelectors(in) ==
    RenderSelector(in.first)
        \o (IF in.second = << >> THEN << >> ELSE << " ", "+", " " >> \o RenderSelector(in.second))

\* Recording-rule names "level:metric" and "level:metric:operations".  The
\* metric component says whether it is snake_case and whether it ends with
\* _total, the operations component whether it names a time window.
RuleNameInputs ==
    { [kind |-> "rule", level |-> l, metric |-> m, operations |-> o] :
        l \in { << "j", "o", "b" >>, << >> },
        m \in { [text |-> << "h", "t", "t", "p", "_", "r", "e", "q", "u", "e", "s", "t", "s" >>, snake |-> TRUE, total |-> FALSE],
                [text |-> << "c", "p", "u", "_", "u", "s", "a", "g", "e" >>, snake |-> TRUE, total |-> FALSE],
                [text |-> << "h", "t", "t", "p", "_", "r", "e", "q", "u", "e", "s", "t", "s", "_", "t", "o", "t", "a", "l" >>, snake |-> TRUE, total |-> TRUE],
                [text |-> << "c", "p", "u", "U", "s", "a", "g", "e" >>, snake |-> FALSE, total |-> FALSE],
                [text |-> << >>, snake |-> FALSE, total |-> FALSE] },
        o \in { [given |-> FALSE, text |-> << >>, window |-> FALSE] }
               \cup { [given |-> TRUE, text |-> t, window |-> TRUE] :
                        t \in { << "r", "a", "t", "e", "5", "m" >>, << "a", "v", "g", "5", "m" >>, << "i", "r", "a", "t", "e", "1", "m" >> } }
               \cup { [given |-> TRUE, text |-> t, window |-> FALSE] :
                        t \in { << "v", "a", "l", "u", "e" >>, << "a", "v", "g" >>, << "s", "u", "m" >>, << "R", "a", "t", "e", "5", "m" >>, << >> } } }

RenderRuleName(in) ==
    in.level \o << ":" >> \o in.metric.text
        \o (IF in.operations.given THEN << ":" >> \o in.operations.text ELSE << >>)

\* Durations: the sensible durations, the ones next to them, and some of
\* the tests.
DurationInputs ==
    UNION { { sensibleDurations[k] - 1, sensibleDurations[k], sensibleDurations[k] + 1 } :
              k \in 1..Len(sensibleDurations) }
        \cup { 0, 1, 10 * Second, 45 * Second, 90 * Second, 25 * Hour, 48 * Hour }

\* Two durations to round.
DurationPairInputs ==
    { [kind |-> "durations", d |-> d, e |-> e] : d, e \in DurationInputs }

\* The events of an alert: up to MaxEvents of them, of no length (the
\* alert fired in one sample only) or of some length.
MaxEvents == 3

EventInputs ==
    { [kind |-> "events", events |-> [i \in 1..Len(ds) |-> AlertEvent(ds[i])]] :
        ds \in SeqsUpTo({ 0, 20 * Second, 45 * Second, 5 * Minute }, MaxEvents) }

\* Texts of up to MaxTokens tokens: a letter, parentheses, the two quote
\* characters, the backslash and the division operator between its two
\* spaces, in any order, balanced or not.
MaxTokens == 5

SplitTokens ==
    { << "a" >>, << "(" >>, << ")" >>, << "\"" >>, << "'" >>, << "\\" >>,
      << " ", "/", " " >> }

TokenInputs ==
    { [kind |-> "tokens", tokens |-> t] : t \in SeqsUpTo(SplitTokens, MaxTokens) }

RenderTokens(in) == Join(in.tokens, << >>)

\* Expressions "A op B op' C" of three operands and two of the binary
\* operators, in either order of priority or twice the same; an operand is
\* a name, or holds an operator in parentheses or in a quoted string.
ChainOperands ==
    { << "a" >>, << "(", "b", " ", "/", " ", "c", ")" >>,
      << "m", "{", "l", "=", "\"", " ", "/", " ", "\"", "}" >>, << "s", "u", "m", "(", "d", " ", "/", " ", "e", ")" >> }

ChainOperators ==
    { << " ", "/", " " >>, << " ", "*", " " >>, << " ", "+", " " >>, << " ", "-", " " >>, << " ", "%", " " >>, << " ", "^", " " >> }

ChainInputs ==
    { [kind |-> "chain", operands |-> << a, b, c >>, ops |-> << j, k >>] :
        a \in ChainOperands, b \in { << "a" >>, << "(", "b", " ", "/", " ", "c", ")" >> },
        c \in ChainOperands, j \in ChainOperators, k \in ChainOperators }

RenderChain(in) ==
    in.operands[1] \o in.ops[1] \o in.operands[2] \o in.ops[2] \o in.operands[3]

\* The texts that are hard on the splitter: parentheses, quotes, the
\* operator and an operand, in any order.  The operand holds two of the
\* operators shouldBeMultiline counts, so that the expressions that hold
\* it are formatted.
MaxFaultTokens == 4

WordyOperand == << "a", " ", "o", "r", " ", "a", " ", "o", "r", " ", "a" >>

FaultTokens ==
    { WordyOperand, << "(" >>, << ")" >>, << "\"" >>, << " ", "/", " " >> }

FaultInputs ==
    { [kind |-> "tokens", tokens |-> t] : t \in SeqsUpTo(FaultTokens, MaxFaultTokens) }

\* A document of one expr: field.
RenderFault(in) == << "e", "x", "p", "r", ":", " " >> \o RenderTokens(in)

\* Expressions "A + B" and "A + B + C" over metric names: one without an
\* application prefix, one in camelCase, one that raises no issue.
MetricPool ==
    { << "r", "e", "q", "u", "e", "s", "t", "s" >>, << "c", "p", "u", "U", "s", "a", "g", "e" >>, << "n", "o", "d", "e", "_", "l", "o", "a", "d" >> }

MetricsInputs ==
    { [kind |-> "metrics", first |-> a, second |-> b, third |-> c] :
        a \in MetricPool, b \in MetricPool, c \in MetricPool \cup { << >> } }

RenderMetrics(in) ==
    in.first \o << " ", "+", " " >> \o in.second
        \o (IF in.third = << >> THEN << >> ELSE << " ", "+", " " >> \o in.third)

\* Expressions "L op M" and "L op M op R" of aggregations whose argument
\* may hold the operator itself, each with a by clause or without one.
NestedOperands ==
    { [agg |-> << "s", "u", "m" >>, inner |-> i, form |-> "postfix", kw |-> KwBy,
       gap |-> << " " >>, labels |-> << l >>, sep |-> << ",", " " >>] :
        i \in { << "a" >>, << "a", " ", "/", " ", "b" >> },
        l \in { LabelNames[1], LabelNames[2] } }
    \cup { [agg |-> << "s", "u", "m" >>, inner |-> i, form |-> "bare", kw |-> << >>,
            gap |-> << >>, labels |-> << >>, sep |-> << >>] :
             i \in { << "a" >>, << "a", " ", "/", " ", "b" >> } }

NestedInputs ==
    { [kind |-> "nested", operands |-> o, op |-> op] :
        o \in [1..2 -> NestedOperands] \cup [1..3 -> NestedOperands],
        op \in { << " ", "/", " " >>, << " ", "*", " " >> } }

RenderNested(in) ==
    Join([k \in 1..Len(in.operands) |-> RenderOperand(in.operands[k])], in.op)

\* Documents of one rule in which the text of the field's line occurs a
\* second time: in a comment above or below the rule, or as the same field
\* of a second rule.
EchoMarks == { << "#" >>, << "#", " ", "w", "a", "s", ":" >> }

EchoInputs ==
    { [kind |-> "echo", field |-> f, where |-> w, mark |-> m] :
        f \in { g \in FieldInputs : ~g.blank },
        w \in { "nowhere", "above", "below", "second rule" },
        m \in EchoMarks }

\* The lines of the document; written is the lines the field is written in.
EchoLines(in, written) ==
    LET comment == << in.mark \o FieldLine(in.field)[1] >>
        rule == << << " ", " ", "-", " ", "a", "l", "e", "r", "t", ":", " ", "A" >> >>
                   \o written
                   \o << in.field.indent \o << "f", "o", "r", ":", " ", "5", "m" >> >>
    IN  << << "r", "u", "l", "e", "s", ":" >> >>
            \o (IF in.where = "above" THEN comment ELSE << >>)
            \o rule
            \o (IF in.where = "below" THEN comment ELSE << >>)
            \o (IF in.where = "second rule" THEN rule ELSE << >>)

RenderEcho(in) == Join(EchoLines(in, FieldLine(in.field)), NL)

---------------------------------------------------------------------------
(* State.                                                                  *)

VARIABLES
    src,            \* the structure the input text was rendered from
    content,        \* CheckAndFormatPromQL: the document
    opts,           \* CheckOptions
    matches,        \* exprRegex.FindAllStringSubmatch(content, -1)
    pc,             \* the position in CheckAndFormatPromQL
    idx,            \* the index of the match the running loop is at
    styleCount,     \* the tally of the first pass
    dominantStyle,
    issues,
    formatted,
    expr,           \* the argument of the functions applied on their own
    ret             \* their results, by function name

vars == << src, content, opts, matches, pc, idx, styleCount, dominantStyle,
           issues, formatted, expr, ret >>

docVars == << content, matches, pc, idx, styleCount, dominantStyle, issues,
              formatted >>

CheckOptions(disableLineLength) ==
    [DisableLineLength |-> disableLineLength, PrometheusURL |-> << >>,
     Verbose |-> FALSE]

Styles == { AggregationStyleUnknown, AggregationStylePostfix, AggregationStylePrefix }

\* What checkAlertHysteresisWithDuration may return: it rests on
\* yaml.Unmarshal of the whole document, which is not modelled.
HysteresisOutcomes == { << >>, << Issue("AlertHysteresis", << >>) >> }

---------------------------------------------------------------------------
(* CheckAndFormatPromQL as a process: the state on entry to the first      *)
(* pass, one step per round of either loop.                                *)

InitDocument ==
    /\ src \in DocumentInputs
    /\ content = RenderDocument(src)
    /\ opts \in { CheckOptions(d) : d \in BOOLEAN }
    /\ issues = << >>
    /\ formatted = content
    /\ matches = << >>
    /\ styleCount = [s \in Styles |-> 0]
    /\ dominantStyle = AggregationStyleUnknown
    /\ pc = "entry"
    /\ idx = 1
    /\ expr = << >>
    /\ ret = << >>

\* The hysteresis check and the search for the expressions. PrometheusURL
\* is empty: checkTimeseriesContinuity is not called.
FindExpressions ==
    /\ pc = "entry"
    /\ opts.PrometheusURL = << >>
    /\ \E hysteresisIssues \in HysteresisOutcomes :
          issues' = issues \o hysteresisIssues
    /\ matches' = FindAllStringSubmatch(ExprRegex, 2, content)
    /\ pc' = "first pass"
    /\ UNCHANGED << src, content, opts, idx, styleCount, dominantStyle,
                    formatted, expr, ret >>

\* One round of "First pass: detect dominant style".
TallyStyle ==
    /\ pc = "first pass"
    /\ idx <= Len(matches)
    /\ LET style == detectAggregationStyle(MatchExpression(matches[idx]))
       IN  styleCount' = IF style # AggregationStyleUnknown
                         THEN [styleCount EXCEPT ![style] = @ + 1]
                         ELSE styleCount
    /\ idx' = idx + 1
    /\ UNCHANGED << src, content, opts, matches, pc, dominantStyle, issues,
                    formatted, expr, ret >>

\* "Determine dominant style".
DetermineDominantStyle ==
    /\ pc = "first pass"
    /\ idx > Len(matches)
    /\ dominantStyle' = DominantStyle(styleCount[AggregationStylePostfix],
                                      styleCount[AggregationStylePrefix])
    /\ pc' = "second pass"
    /\ idx' = 1
    /\ UNCHANGED << src, content, opts, matches, styleCount, issues, formatted,
                    expr, ret >>

\* %.60s: at most 60 runes of the argument.
RECURSIVE RunePrefixEnd(_, _, _)
RunePrefixEnd(s, i, n) ==
    IF i > Len(s) THEN i
    ELSE IF s[i] \in ContinuationBytes THEN RunePrefixEnd(s, i + 1, n)
    ELSE IF n = 0 THEN i
    ELSE RunePrefixEnd(s, i + 1, n - 1)

MultilineIssuePrecision == 60

MultilineIssue(expression) ==
    Issue("ShouldBeMultiline",
          << Slice(expression, 1, RunePrefixEnd(expression, 1, MultilineIssuePrecision)) >>)

\* The rewrite of the document for one match.
RewriteMatch(text, match, expression) ==
    ReplaceFirst(text, match[1],
                 formatYAMLBlock(match[2], formatPromQLMultiline(expression),
                                 getIndentation(match[1])))

\* A variant that compares every expression with the postfix style.
ConsistencyIssuesAgainstPostfix(expression, dominant) ==
    LET style == detectAggregationStyle(expression)
    IN  IF dominant # AggregationStyleUnknown
           /\ style # AggregationStyleUnknown /\ style # AggregationStylePostfix
        THEN << Issue("InconsistentAggregation", << style, AggregationStylePostfix >>) >>
        ELSE << >>

\* A variant that names the two styles the wrong way round.
ConsistencyIssuesSwapped(expression, dominant) ==
    LET style == detectAggregationStyle(expression)
    IN  IF dominant # AggregationStyleUnknown
           /\ style # AggregationStyleUnknown /\ style # dominant
        THEN << Issue("InconsistentAggregation", << dominant, style >>) >>
        ELSE << >>

\* "Check aggregation clause consistency".
ConsistencyIssues(expression, dominant) ==
    LET style == detectAggregationStyle(expression)
    IN  IF dominant # AggregationStyleUnknown
           /\ style # AggregationStyleUnknown /\ style # dominant
        THEN << Issue("InconsistentAggregation", << style, dominant >>) >>
        ELSE << >>

\* The slice checkPrometheusBestPractices returns for the expression, kept
\* in this process as one entry that stands for all of it.
BestPracticesEntry(expression) ==
    { << Issue("BestPractices", << expression >>) >> }

\* One round of "Second pass: check each expression".
CheckExpression ==
    /\ pc = "second pass"
    /\ idx <= Len(matches)
    /\ LET match == matches[idx]
           expression == MatchExpression(match)
           multiline == shouldBeMultiline(expression, opts.DisableLineLength)
       IN  /\ \E bestPracticeIssues \in BestPracticesEntry(expression) :
                issues' = issues
                    \o checkRedundantAggregations(expression)
                    \o checkAggregationPlacement(expression)
                    \o (IF multiline THEN << MultilineIssue(expression) >> ELSE << >>)
                    \o bestPracticeIssues
                    \o ConsistencyIssues(expression, dominantStyle)
           /\ formatted' = IF multiline
                           THEN RewriteMatch(formatted, match, expression)
                           ELSE formatted
    /\ idx' = idx + 1
    /\ UNCHANGED << src, content, opts, matches, pc, styleCount, dominantStyle,
                    expr, ret >>

\* return issues, formatted
Return ==
    /\ pc = "second pass"
    /\ idx > Len(matches)
    /\ pc' = "returned"
    /\ UNCHANGED << src, content, opts, matches, idx, styleCount, dominantStyle,
                    issues, formatted, expr, ret >>

Next == FindExpressions \/ TallyStyle \/ DetermineDominantStyle \/ CheckExpression \/ Return

Spec == InitDocument /\ [][Next]_vars

---------------------------------------------------------------------------
(* CheckAndFormatPromQL on the documents of fields.                        *)

InitLayout ==
    /\ src \in LayoutInputs
    /\ content = RenderLayout(src)
    /\ opts \in { CheckOptions(d) : d \in BOOLEAN }
    /\ issues = << >>
    /\ formatted = content
    /\ matches = << >>
    /\ styleCount = [s \in Styles |-> 0]
    /\ dominantStyle = AggregationStyleUnknown
    /\ pc = "entry"
    /\ idx = 1
    /\ expr = << >>
    /\ ret = << >>

SpecLayout == InitLayout /\ [][Next]_vars

---------------------------------------------------------------------------
(* The functions applied on their own to an expression.                    *)

InitExpression ==
    /\ \/ src \in BinaryInputs /\ opts = CheckOptions(FALSE)
       \/ src \in PaddedInputs /\ opts \in { CheckOptions(d) : d \in BOOLEAN }
    /\ expr = RenderInput(src)
    /\ ret = << >>
    /\ content = << >>
    /\ matches = << >>
    /\ pc = "none"
    /\ idx = 0
    /\ styleCount = [s \in Styles |-> 0]
    /\ dominantStyle = AggregationStyleUnknown
    /\ issues = << >>
    /\ formatted = << >>

Called(fn) == fn \in DOMAIN ret

\* fn is applied: its result is kept under its name.
Returns(fn, value) ==
    /\ ~Called(fn)
    /\ Cardinality(DOMAIN ret) < MaxCalls
    /\ ret' = ret @@ (fn :> value)
    /\ UNCHANGED << src, opts, expr, docVars >>

CallFormatPromQLMultiline ==
    /\ src.kind # "tokens"
    /\ Returns("formatPromQLMultiline", formatPromQLMultiline(expr))

CallCheckRedundantAggregations ==
    Returns("checkRedundantAggregations", checkRedundantAggregations(expr))

CallShouldBeMultiline ==
    Returns("shouldBeMultiline", shouldBeMultiline(expr, opts.DisableLineLength))

NextFn ==
    \/ CallFormatPromQLMultiline
    \/ CallCheckRedundantAggregations
    \/ CallShouldBeMultiline

SpecFn == InitExpression /\ [][NextFn]_vars

---------------------------------------------------------------------------
(* The functions that look for aggregation clauses, applied on their own.  *)

InitAggregation ==
    /\ src \in BinaryInputs \cup SingleInputs \cup ComparedInputs
    /\ opts = CheckOptions(FALSE)
    /\ expr = RenderInput(src)
    /\ ret = << >>
    /\ content = << >>
    /\ matches = << >>
    /\ pc = "none"
    /\ idx = 0
    /\ styleCount = [s \in Styles |-> 0]
    /\ dominantStyle = AggregationStyleUnknown
    /\ issues = << >>
    /\ formatted = << >>

CallExtractTrailingAggregation ==
    Returns("extractTrailingAggregation", extractTrailingAggregation(expr))

CallDetectAggregationStyle ==
    Returns("detectAggregationStyle", detectAggregationStyle(expr))

CallCheckAggregationPlacement ==
    Returns("checkAggregationPlacement", checkAggregationPlacement(expr))

NextAggregation ==
    \/ CallExtractTrailingAggregation
    \/ CallDetectAggregationStyle
    \/ CallCheckAggregationPlacement
    \/ CallCheckRedundantAggregations

SpecAggregation == InitAggregation /\ [][NextAggregation]_vars

---------------------------------------------------------------------------
(* The validators of checkPrometheusBestPractices applied on their own: to *)
(* a metric name, to an expression.                                        *)

InitPractices ==
    /\ \/ src \in NameInputs /\ expr = src.text
       \/ src \in QuotientInputs /\ expr = RenderQuotient(src)
       \/ src \in SelectorInputs /\ expr = RenderSelectors(src)
       \/ src \in RuleNameInputs /\ expr = RenderRuleName(src)
    /\ opts = CheckOptions(FALSE)
    /\ ret = << >>
    /\ content = << >>
    /\ matches = << >>
    /\ pc = "none"
    /\ idx = 0
    /\ styleCount = [s \in Styles |-> 0]
    /\ dominantStyle = AggregationStyleUnknown
    /\ issues = << >>
    /\ formatted = << >>

CallCheckMetricNamingConventions ==
    /\ src.kind = "name"
    /\ Returns("checkMetricNamingConventions", checkMetricNamingConventions(expr))

CallCheckInstrumentationPatterns ==
    /\ src.kind = "quotient"
    /\ Returns("checkInstrumentationPatterns", checkInstrumentationPatterns(expr))

CallCheckLabelNaming ==
    /\ src.kind = "selectors"
    /\ Returns("checkLabelNaming", checkLabelNaming(expr))

\* One round of the loop over metricNames, for the name expr.
CheckMetricName ==
    /\ src.kind = "rule"
    /\ Returns("MetricNameIssues", MetricNameIssues(expr))

NextPractices ==
    \/ CallCheckMetricNamingConventions
    \/ CallCheckInstrumentationPatterns
    \/ CallCheckLabelNaming
    \/ CheckMetricName

SpecPractices == InitPractices /\ [][NextPractices]_vars

---------------------------------------------------------------------------
(* formatPromQLMultiline applied to an expression, and then to its own     *)
(* result.                                                                 *)

InitFormat ==
    /\ src \in BinaryInputs \cup SingleInputs \cup { in \in PaddedInputs : in.pad = 0 }
    /\ opts = CheckOptions(FALSE)
    /\ expr = RenderInput(src)
    /\ ret = << >>
    /\ content = << >>
    /\ matches = << >>
    /\ pc = "none"
    /\ idx = 0
    /\ styleCount = [s \in Styles |-> 0]
    /\ dominantStyle = AggregationStyleUnknown
    /\ issues = << >>
    /\ formatted = << >>

\* formatPromQLMultiline is applied to the expression or, once that is done,
\* to what it returned for the expression.
CallFormatPromQLMultilineAgain ==
    LET again == Called("formatPromQLMultiline")
    IN  Returns(IF again THEN "formatPromQLMultiline again" ELSE "formatPromQLMultiline",
                formatPromQLMultiline(IF again THEN ret["formatPromQLMultiline"]
                                               ELSE expr))

NextFormat == CallFormatPromQLMultilineAgain

SpecFormat == InitFormat /\ [][NextFormat]_vars

---------------------------------------------------------------------------
(* package alertmanager: the functions applied to durations and to the     *)
(* events of an alert.                                                     *)

InitHysteresis ==
    /\ \/ src \in DurationPairInputs /\ expr = << src.d, src.e >>
       \/ src \in EventInputs /\ expr = src.events
    /\ opts = CheckOptions(FALSE)
    /\ ret = << >>
    /\ content = << >>
    /\ matches = << >>
    /\ pc = "none"
    /\ idx = 0
    /\ styleCount = [s \in Styles |-> 0]
    /\ dominantStyle = AggregationStyleUnknown
    /\ issues = << >>
    /\ formatted = << >>

\* roundToSensibleDuration is applied to the first duration, and to the
\* second.
CallRoundToSensibleDuration ==
    /\ src.kind = "durations"
    /\ \/ Returns("roundToSensibleDuration", roundToSensibleDuration(expr[1]))
       \/ Returns("roundToSensibleDuration of the second", roundToSensibleDuration(expr[2]))

CallAnalyzeAlert ==
    /\ src.kind = "events"
    /\ Returns("AnalyzeAlert", AnalyzeAlert(<< "A" >>, expr))

NextHysteresis ==
    \/ CallRoundToSensibleDuration
    \/ CallAnalyzeAlert

SpecHysteresis == InitHysteresis /\ [][NextHysteresis]_vars

---------------------------------------------------------------------------
(* splitByBinaryOperator and formatPromQLMultiline applied to a text.      *)

InitSplit ==
    /\ \/ src \in TokenInputs /\ expr = RenderTokens(src)
       \/ src \in ChainInputs /\ expr = RenderChain(src)
    /\ opts = CheckOptions(FALSE)
    /\ ret = << >>
    /\ content = << >>
    /\ matches = << >>
    /\ pc = "none"
    /\ idx = 0
    /\ styleCount = [s \in Styles |-> 0]
    /\ dominantStyle = AggregationStyleUnknown
    /\ issues = << >>
    /\ formatted = << >>

CallSplitByBinaryOperator ==
    /\ src.kind = "tokens"
    /\ Returns("splitByBinaryOperator", splitByBinaryOperator(expr, BinaryOps[1]))

NextSplit ==
    \/ CallSplitByBinaryOperator
    \/ CallFormatPromQLMultiline

SpecSplit == InitSplit /\ [][NextSplit]_vars

---------------------------------------------------------------------------
(* CheckAndFormatPromQL and splitByBinaryOperator on the texts that are    *)
(* hard on the splitter.                                                   *)

InitFaults ==
    /\ src \in FaultInputs
    /\ content = RenderFault(src)
    /\ expr = RenderTokens(src)
    /\ opts = CheckOptions(FALSE)
    /\ issues = << >>
    /\ formatted = content
    /\ matches = << >>
    /\ styleCount = [s \in Styles |-> 0]
    /\ dominantStyle = AggregationStyleUnknown
    /\ pc = "entry"
    /\ idx = 1
    /\ ret = << >>

\* splitByBinaryOperator on the expression of the document, once
\* CheckAndFormatPromQL has returned.
SplitTheExpression ==
    /\ pc = "returned"
    /\ CallSplitByBinaryOperator

NextFaults ==
    \/ Next
    \/ SplitTheExpression

SpecFaults == InitFaults /\ [][NextFaults]_vars

---------------------------------------------------------------------------
(* checkPrometheusBestPractices applied twice to the same expression.      *)

InitInvocations ==
    /\ src \in MetricsInputs
    /\ expr = RenderMetrics(src)
    /\ opts = CheckOptions(FALSE)
    /\ ret = << >>
    /\ content = << >>
    /\ matches = << >>
    /\ pc = "none"
    /\ idx = 0
    /\ styleCount = [s \in Styles |-> 0]
    /\ dominantStyle = AggregationStyleUnknown
    /\ issues = << >>
    /\ formatted = << >>

Invocations == { "checkPrometheusBestPractices", "checkPrometheusBestPractices again" }

\* One of the two invocations returns.
CallCheckPrometheusBestPractices ==
    /\ src.kind = "metrics"
    /\ \E invocation \in Invocations :
          \E result \in checkPrometheusBestPractices(expr) :
             Returns(invocation, result)

NextInvocations == CallCheckPrometheusBestPractices

SpecInvocations == InitInvocations /\ [][NextInvocations]_vars

---------------------------------------------------------------------------
(* formatPromQLMultiline and checkRedundantAggregations applied to the     *)
(* same expression, whose operands hold the operator or are three.         *)

InitAgreement ==
    /\ src \in NestedInputs
    /\ expr = RenderNested(src)
    /\ opts = CheckOptions(FALSE)
    /\ ret = << >>
    /\ content = << >>
    /\ matches = << >>
    /\ pc = "none"
    /\ idx = 0
    /\ styleCount = [s \in Styles |-> 0]
    /\ dominantStyle = AggregationStyleUnknown
    /\ issues = << >>
    /\ formatted = << >>

SpecAgreement == InitAgreement /\ [][NextFn]_vars

---------------------------------------------------------------------------
(* CheckAndFormatPromQL on the documents in which the text of a field's    *)
(* line occurs twice.                                                      *)

InitEcho ==
    /\ src \in EchoInputs
    /\ content = RenderEcho(src)
    /\ opts \in { CheckOptions(d) : d \in BOOLEAN }
    /\ issues = << >>
    /\ formatted = content
    /\ matches = << >>
    /\ styleCount = [s \in Styles |-> 0]
    /\ dominantStyle = AggregationStyleUnknown
    /\ pc = "entry"
    /\ idx = 1
    /\ expr = << >>
    /\ ret = << >>

SpecEcho == InitEcho /\ [][Next]_vars

---------------------------------------------------------------------------
(* What the properties are stated in: the structure an input was rendered  *)
(* from, and the parts of a formatted expression.                          *)

RECURSIVE Squeeze(_)
\* s without its white space.
Squeeze(s) ==
    IF s = << >> THEN << >>
    ELSE IF Head(s) \in GoSpace THEN Squeeze(Tail(s))
    ELSE << Head(s) >> \o Squeeze(Tail(s))

IsOperatorLine(line, op) == HasPrefix(TrimSpace(line), TrimSpace(op))

RECURSIVE OperatorLinesOf(_, _)
OperatorLinesOf(lines, op) ==
    IF lines = << >> THEN << >>
    ELSE (IF IsOperatorLine(Head(lines), op) THEN << Head(lines) >> ELSE << >>)
         \o OperatorLinesOf(Tail(lines), op)

\* The lines of a formatted expression that start with the operator.
OperatorLines(out, op) == OperatorLinesOf(Split(out, NL), op)

RECURSIVE FirstOperatorLine(_, _, _)
FirstOperatorLine(lines, op, k) ==
    IF k > Len(lines) THEN 0
    ELSE IF IsOperatorLine(lines[k], op) THEN k
    ELSE FirstOperatorLine(lines, op, k + 1)

\* The text above and the text below the operator line.
LeftOperandText(out, op) ==
    LET lines == Split(out, NL)
        k == FirstOperatorLine(lines, op, 1)
    IN  IF k = 0 THEN out ELSE Join(SubSeq(lines, 1, k - 1), NL)

RightOperandText(out, op) ==
    LET lines == Split(out, NL)
        k == FirstOperatorLine(lines, op, 1)
    IN  IF k = 0 THEN << >> ELSE Join(SubSeq(lines, k + 1, Len(lines)), NL)

\* A binary input whose operands both end with the same clause of keyword kw.
IdenticalTrailingClauses(in, kw) ==
    /\ in.kind = "binary"
    /\ in.left.form = "postfix" /\ in.right.form = "postfix"
    /\ in.left.kw = kw /\ in.right.kw = kw
    /\ ClauseText(in.left) = ClauseText(in.right)

EndsWithByClause(o) == o.form = "postfix" /\ o.kw = KwBy

\* The keywords shouldBeMultiline counts.
RecognizedKeywords ==
    { << "a", "n", "d" >>, << "o", "r" >>, << "u", "n", "l", "e", "s", "s" >>, << "b", "y" >>, << "w", "i", "t", "h", "o", "u", "t" >>, << "o", "n" >>, << "i", "g", "n", "o", "r", "i", "n", "g" >> }

IdentCh == WordCh \cup {":"}
QuoteCh == {"\"", "'"}

RECURSIVE IdentEnd(_, _)
IdentEnd(s, i) == IF i <= Len(s) /\ s[i] \in IdentCh THEN IdentEnd(s, i + 1) ELSE i

\* The number of keywords among the words of s from s[i] on; with lexical,
\* string literals are skipped; quote is the quote of the literal the scan
\* is in, or empty.
RECURSIVE KeywordScan(_, _, _, _)
KeywordScan(s, i, quote, lexical) ==
    IF i > Len(s) THEN 0
    ELSE IF quote # "" THEN
        IF s[i] = "\\" THEN KeywordScan(s, i + 2, quote, lexical)
        ELSE IF s[i] = quote THEN KeywordScan(s, i + 1, "", lexical)
        ELSE KeywordScan(s, i + 1, quote, lexical)
    ELSE IF lexical /\ s[i] \in QuoteCh THEN KeywordScan(s, i + 1, s[i], lexical)
    ELSE IF s[i] \in IdentCh THEN
        LET e == IdentEnd(s, i)
        IN  (IF ToLower(Slice(s, i, e)) \in RecognizedKeywords THEN 1 ELSE 0)
            + KeywordScan(s, e, "", lexical)
    ELSE KeywordScan(s, i + 1, "", lexical)

\* The keywords that are tokens of the expression.
KeywordTokens(s) == KeywordScan(s, 1, "", TRUE)

\* The keywords that are words of the text, string literals included.
KeywordWords(s) == KeywordScan(s, 1, "", FALSE)

StyleTally(rules, style) ==
    Cardinality({ k \in 1..Len(rules) : rules[k].style = style })

StylableCount(rules) ==
    Cardinality({ k \in 1..Len(rules) : rules[k].style # AggregationStyleUnknown })

RECURSIVE IssuesOfKind(_, _)
IssuesOfKind(iss, kind) ==
    IF iss = << >> THEN << >>
    ELSE (IF Head(iss).kind = kind THEN << Head(iss) >> ELSE << >>)
         \o IssuesOfKind(Tail(iss), kind)

InconsistencyIssues == IssuesOfKind(issues, "InconsistentAggregation")

TallyDone == pc \in { "second pass", "returned" }

\* The rules the second pass has been through.
Processed ==
    CASE pc = "second pass" -> idx - 1
      [] pc = "returned" -> Len(matches)
      [] OTHER -> 0

Min(a, b) == IF a < b THEN a ELSE b

---------------------------------------------------------------------------
(* Properties.                                                             *)

\* C1: when both operands of a split expression end with the same by
\* clause, the formatted left operand is "agg ( inner )" without the clause
\* and the right operand is "agg by (labels) ( inner )".
C1_LeftByClauseOmitted ==
    (IdenticalTrailingClauses(src, KwBy) /\ Called("formatPromQLMultiline")) =>
        LET out == ret["formatPromQLMultiline"]
        IN  /\ Squeeze(LeftOperandText(out, src.op))
                 = src.left.agg \o LParen \o src.left.inner \o RParen
            /\ Squeeze(RightOperandText(out, src.op))
                 = src.right.agg \o KwBy \o LParen \o Join(src.right.labels, Comma)
                     \o RParen \o LParen \o src.right.inner \o RParen

\* C2: when both operands end with the same without clause, neither
\* checkRedundantAggregations reports the left clause as redundant nor does
\* the formatter omit it.
C2_WithoutNeverRedundant ==
    IdenticalTrailingClauses(src, KwWithout) =>
        /\ Called("checkRedundantAggregations") =>
               IssuesOfKind(ret["checkRedundantAggregations"], "RedundantAggregation") = << >>
        /\ Called("formatPromQLMultiline") =>
               Contains(Squeeze(LeftOperandText(ret["formatPromQLMultiline"], src.op)),
                        Squeeze(ClauseText(src.left)))

IsByClause(agg) == agg # << >> /\ HasPrefix(TrimSpace(Tail(agg)), KwBy)

\* What C3 says of the operator op occurring once in expr.
RedundancyReportedFor(op) ==
    LET i == Index(expr, op)
        leftAgg == extractTrailingAggregation(TrimSpace(Slice(expr, 1, i)))
        rightAgg == extractTrailingAggregation(
                        TrimSpace(Slice(expr, i + Len(op), Len(expr) + 1)))
        reported == IssuesOfKind(ret["checkRedundantAggregations"], "RedundantAggregation")
        forOp == { k \in 1..Len(reported) : reported[k].args[2] = op }
    IN  /\ (IsByClause(leftAgg) /\ leftAgg = rightAgg) =>
               /\ Cardinality(forOp) = 1
               /\ \A k \in forOp : reported[k].args[1] = leftAgg
        /\ (leftAgg # rightAgg \/ leftAgg = << >> \/ rightAgg = << >>) => forOp = { }

\* C3: for an operator occurring once in the expression,
\* checkRedundantAggregations reports the left clause when the trailing
\* clauses of the two operands are the same by clause, and reports nothing
\* when they differ or one operand has none; two operands written with the
\* same by clause are reported.
C3_RedundantByClauseReported ==
    Called("checkRedundantAggregations") =>
        /\ \A k \in 1..Len(BinaryOps) :
               Count(expr, BinaryOps[k]) = 1 => RedundancyReportedFor(BinaryOps[k])
        /\ IdenticalTrailingClauses(src, KwBy) =>
               ret["checkRedundantAggregations"]
                   = << Issue("RedundantAggregation",
                              << RParen \o << " " >> \o ClauseText(src.left), src.op >>) >>

C3_Witness ==
    /\ IdenticalTrailingClauses(src, KwBy)
    /\ Len(src.left.labels) > 1
    /\ Called("checkRedundantAggregations")
    /\ Len(ret["checkRedundantAggregations"]) = 1

\* The operator line as the operands' structure has it.
ExpectedOperatorLine(in) ==
    << " ", " " >> \o TrimSpace(in.op)
        \o (IF EndsWithByClause(in.right)
            THEN << " ", "o", "n", " ", "(" >> \o Join(in.right.labels, << ",", " " >>) \o RParen
            ELSE << >>)

C5_WithoutKeptOnBothSides ==
    (IdenticalTrailingClauses(src, KwWithout) /\ Called("formatPromQLMultiline")) =>
        LET out == ret["formatPromQLMultiline"]
        IN  /\ Contains(Squeeze(LeftOperandText(out, src.op)), Squeeze(ClauseText(src.left)))
            /\ Contains(Squeeze(RightOperandText(out, src.op)), Squeeze(ClauseText(src.right)))

C5_Witness ==
    /\ IdenticalTrailingClauses(src, KwWithout)
    /\ src.left.inner = << "a" >>
    /\ Called("formatPromQLMultiline")
    /\ HasPrefix(ret["formatPromQLMultiline"], << "s", "u", "m", " ", "w", "i", "t", "h", "o", "u", "t", " ", "(", "x", ")", " ", "(" >>)

\* C6: once the first pass is over, the dominant style is PREFIX if there
\* are more prefix than postfix expressions and POSTFIX otherwise.
C6_TieResolvesToPostfix ==
    TallyDone =>
        dominantStyle = IF StyleTally(src.rules, AggregationStylePrefix)
                            > StyleTally(src.rules, AggregationStylePostfix)
                        THEN AggregationStylePrefix
                        ELSE AggregationStylePostfix

\* C6, amended: once the first pass is over, the counts are those of the
\* document's prefix and postfix expressions, and the dominant style is
\* PREFIX if there are more prefix than postfix expressions, POSTFIX if there
\* are at least as many postfix as prefix expressions and at least one, and
\* UNKNOWN if there is neither.
C6_DominantStyle ==
    TallyDone =>
        LET prefixCount == StyleTally(src.rules, AggregationStylePrefix)
            postfixCount == StyleTally(src.rules, AggregationStylePostfix)
        IN  /\ styleCount[AggregationStylePrefix] = prefixCount
            /\ styleCount[AggregationStylePostfix] = postfixCount
            /\ dominantStyle =
                 CASE prefixCount > postfixCount -> AggregationStylePrefix
                   [] postfixCount >= prefixCount /\ postfixCount > 0 -> AggregationStylePostfix
                   [] OTHER -> AggregationStyleUnknown

C6_Witness ==
    /\ TallyDone
    /\ StyleTally(src.rules, AggregationStylePrefix) = 1
    /\ StyleTally(src.rules, AggregationStylePostfix) = 1
    /\ dominantStyle = AggregationStylePostfix

\* C7: a document with at most one expression of a detectable style gets no
\* inconsistency issue.
C7_NoIssueBelowTwoStylable ==
    StylableCount(src.rules) <= 1 => InconsistencyIssues = << >>

C7_Witness ==
    /\ pc = "returned"
    /\ Len(src.rules) > 1
    /\ StylableCount(src.rules) = 1
    /\ StyleTally(src.rules, AggregationStylePrefix) = 1

\* The inconsistency issues of the first n rules under a dominant style.
RECURSIVE ExpectedInconsistencies(_, _, _)
ExpectedInconsistencies(rules, n, dominant) ==
    IF n = 0 THEN << >>
    ELSE ExpectedInconsistencies(rules, n - 1, dominant)
         \o (IF rules[n].style # AggregationStyleUnknown /\ rules[n].style # dominant
             THEN << Issue("InconsistentAggregation", << rules[n].style, dominant >>) >>
             ELSE << >>)

\* C8: the inconsistency issues are, in order, one for each expression gone
\* through whose style is PREFIX or POSTFIX and not the dominant one, naming
\* the expression's style and the dominant style; at the return there are as
\* many as expressions of the minority style.
C8_OneIssuePerMinorityExpression ==
    /\ InconsistencyIssues = ExpectedInconsistencies(src.rules, Processed, dominantStyle)
    /\ pc = "returned" =>
           Len(InconsistencyIssues)
               = Min(StyleTally(src.rules, AggregationStylePrefix),
                     StyleTally(src.rules, AggregationStylePostfix))

C8_Witness ==
    /\ pc = "returned"
    /\ StyleTally(src.rules, AggregationStylePrefix) = 1
    /\ StyleTally(src.rules, AggregationStylePostfix) = 1
    /\ InconsistencyIssues
         = << Issue("InconsistentAggregation",
                    << AggregationStylePrefix, AggregationStylePostfix >>) >>

\* C9: shouldBeMultiline is false for an expression with fewer than 2
\* keywords that is at most 80 characters long or checked with the
\* line-length test disabled; with the test disabled the result is that of
\* the expression without its padding.
C9_FalseBelowBothThresholds ==
    Called("shouldBeMultiline") =>
        /\ (KeywordWords(expr) < 2
              /\ (RuneCount(expr) <= LineLengthLimit \/ opts.DisableLineLength))
             => ret["shouldBeMultiline"] = FALSE
        /\ (opts.DisableLineLength /\ src.kind = "padded")
             => ret["shouldBeMultiline"] = shouldBeMultiline(src.base, TRUE)

\* C10: shouldBeMultiline(expr, false) is true for an expression longer than
\* 80 characters and for one with at least 2 keyword tokens.
C10_TrueAboveEitherThreshold ==
    (Called("shouldBeMultiline") /\ ~opts.DisableLineLength) =>
        ((RuneCount(expr) > LineLengthLimit \/ KeywordTokens(expr) >= 2)
            => ret["shouldBeMultiline"] = TRUE)


---------------------------------------------------------------------------
(* Formatting twice, and formatting what has no binary operator.           *)

\* The operators of formatPromQLMultiline that split the expression in two.
SplittingOps(e) ==
    { k \in 1..Len(BinaryOps) :
        Contains(e, BinaryOps[k]) /\ Len(splitByBinaryOperator(e, BinaryOps[k])) = 2 }

\* C11: the formatted text of an expression of two simple operands under
\* one binary operator is formatted to itself: format(format(e)) = format(e).
C11_FormatIdempotent ==
    (src.kind = "binary" /\ Called("formatPromQLMultiline again"))
        => ret["formatPromQLMultiline again"] = ret["formatPromQLMultiline"]

RECURSIVE ParenDepthFrom(_, _, _)
\* The deepest nesting of parentheses in s from position i on, at depth d.
ParenDepthFrom(s, i, d) ==
    IF i > Len(s) THEN d
    ELSE IF s[i] = "(" THEN
        LET deeper == ParenDepthFrom(s, i + 1, d + 1)
        IN  IF deeper > d THEN deeper ELSE d
    ELSE IF s[i] = ")" THEN
        LET rest == ParenDepthFrom(s, i + 1, d - 1)
        IN  IF rest > d THEN rest ELSE d
    ELSE ParenDepthFrom(s, i + 1, d)

IsFormatAggOp(agg) == \E k \in 1..Len(FormatAggOps) : FormatAggOps[k] = agg

\* What an aggregation on its own is formatted to, from its structure.
ExpectedSingle(o) ==
    LET open == << " ", "(" >> \o NL \o << " ", " " >>
        close == NL \o RParen
        labels == LParen \o Join(o.labels, o.sep) \o RParen
    IN  IF ~IsFormatAggOp(o.agg) THEN RenderOperand(o)
        ELSE IF o.form = "bare" THEN o.agg \o open \o o.inner \o close
        ELSE IF o.form = "postfix" /\ (ParenDepthFrom(o.inner, 1, 0) >= 2 \/ o.labels = << >>)
        THEN o.agg \o open \o o.inner \o << ")", " " >> \o o.kw \o o.gap \o LParen
                 \o Join(o.labels, o.sep) \o close
        ELSE o.agg \o << " " >> \o o.kw \o << " " >> \o labels \o open \o o.inner \o close

---------------------------------------------------------------------------
(* The rewrite of a field in its document.                                 *)

\* A field's expression is one that is rewritten under the options.
FieldIsMultiline(f, options) ==
    \/ f.multiline = "always"
    \/ f.multiline = "length" /\ ~options.DisableLineLength

RECURSIVE TrimmedNonBlank(_)
\* The lines that are not blank, each without the white space around it.
TrimmedNonBlank(lines) ==
    IF lines = << >> THEN << >>
    ELSE (IF TrimSpace(Head(lines)) = << >> THEN << >> ELSE << TrimSpace(Head(lines)) >>)
         \o TrimmedNonBlank(Tail(lines))

\* The lines a rewritten field is expected in: the key with " |", then the
\* lines of the formatted expression two spaces deeper than the key.
ExpectedFieldLines(f, options) ==
    LET text == formatPromQLMultiline(f.text)
        body == TrimmedNonBlank(Split(text, NL))
    IN  IF ~FieldIsMultiline(f, options) THEN FieldLine(f)
        ELSE IF ~Contains(text, NL) THEN << f.indent \o f.key \o << " " >> \o text >>
        ELSE << f.indent \o f.key \o << " ", "|" >> >>
             \o [k \in 1..Len(body) |-> f.indent \o << " ", " " >> \o body[k]]

ExpectedLayout(in, options) ==
    Join(<< << "r", "u", "l", "e", "s", ":" >> >>
             \o LayoutLines(in.fields,
                             [k \in 1..Len(in.fields) |->
                                 ExpectedFieldLines(in.fields[k], options)], 1),
         NL)

\* C13: every rewritten field whose formatted expression spans several
\* lines stands in the returned document as its key followed by " |" and
\* the trimmed non-blank lines of the formatted expression, each indented
\* by the indentation of the key's line and two spaces, wherever the field
\* stands, also after a blank line.
C13_BlockIndentedUnderKey ==
    (src.kind = "layout" /\ pc = "returned"
        /\ \A k \in 1..Len(src.fields) :
               FieldIsMultiline(src.fields[k], opts) => src.fields[k].multiline = "always")
        => formatted = ExpectedLayout(src, opts)

\* C14: when no field of the document has an expression that is to be
\* multi-line, a document without fields included, the returned document
\* is the given one byte for byte, under either option and whatever issues
\* are reported.
C14_UnchangedWithoutMultiline ==
    (src.kind = "layout"
        /\ \A k \in 1..Len(src.fields) : ~FieldIsMultiline(src.fields[k], opts))
        => formatted = content

C14_Witness ==
    /\ src.kind = "layout"
    /\ pc = "returned"
    /\ opts.DisableLineLength
    /\ Len(src.fields) = MaxFields
    /\ \A k \in 1..Len(src.fields) : ~FieldIsMultiline(src.fields[k], opts)
    /\ \E k \in 1..Len(src.fields) : src.fields[k].multiline = "length"
    /\ \E k \in 1..Len(src.fields) : src.fields[k].blank
    /\ IssuesOfKind(issues, "AlertHysteresis") # << >>
    /\ formatted = content

---------------------------------------------------------------------------
(* The clauses of the operands, from the structure of the input.           *)

\* The clause an operand ends with as extractTrailingAggregation names it:
\* the closing parenthesis before it included; empty for an operand that
\* does not end with a clause of at least one label.
OperandClause(o) ==
    IF o.form = "postfix" /\ o.labels # << >>
    THEN << ")", " " >> \o ClauseText(o)
    ELSE << >>

\* The operand an input ends with.
FinalOperand(in) == IF in.kind = "single" THEN in.operand ELSE in.right

\* C15: extractTrailingAggregation returns the final clause, closing
\* parenthesis to closing parenthesis, when the expression without the
\* white space after it ends with ") by (labels)" or ") without (labels)",
\* and that text is a suffix of the right-trimmed expression; it returns
\* the empty string when the expression has no clause, when its clause is
\* in prefix position and when the clause is followed by anything else.
C15_TrailingClauseExtracted ==
    Called("extractTrailingAggregation")
        => LET clause == ret["extractTrailingAggregation"]
           IN  /\ clause = IF src.kind = "compared" THEN << >>
                            ELSE OperandClause(FinalOperand(src))
               /\ clause # << >> => HasSuffix(TrimRightSet(expr, GoSpace), clause)

C15_Witness ==
    /\ src.kind = "single"
    /\ src.margin = 1
    /\ src.operand.form = "postfix"
    /\ src.operand.kw = KwWithout
    /\ Called("extractTrailingAggregation")
    /\ ret["extractTrailingAggregation"] = OperandClause(src.operand)
    /\ ~HasSuffix(expr, ret["extractTrailingAggregation"])

\* The operands of an input.
OperandsOf(in) ==
    IF in.kind = "single" THEN { in.operand } ELSE { in.left, in.right }

\* C16: detectAggregationStyle tests the prefix shape before the postfix
\* shape: an expression with an operand "agg by|without (labels) (" is
\* PREFIX also when another operand has the postfix shape; it is POSTFIX
\* only when no operand has the prefix shape and one has the shape
\* "agg(...) by|without ("; it is unknown when no operand has a clause.
C16_PrefixTestedBeforePostfix ==
    Called("detectAggregationStyle")
        => ret["detectAggregationStyle"] =
             IF \E o \in OperandsOf(src) : o.form = "prefix"
             THEN AggregationStylePrefix
             ELSE IF \E o \in OperandsOf(src) : o.form = "postfix"
             THEN AggregationStylePostfix
             ELSE AggregationStyleUnknown

C16_Witness ==
    /\ src.kind = "binary"
    /\ src.left.form = "postfix"
    /\ src.right.form = "prefix"
    /\ MatchString(DetectPostfixPattern, expr)
    /\ Called("detectAggregationStyle")
    /\ ret["detectAggregationStyle"] = AggregationStylePrefix

---------------------------------------------------------------------------
(* checkAggregationPlacement on two operands.                              *)

TwoOperands == src.kind \in { "binary", "compared" }
LeftClause == OperandClause(src.left)
RightClause == OperandClause(src.right)
PlacementIssues == ret["checkAggregationPlacement"]

C18_PlacementIssueReturned ==
    (TwoOperands /\ Called("checkAggregationPlacement"))
        => /\ (LeftClause # << >> /\ RightClause \in { << >>, LeftClause })
                => PlacementIssues = << Issue("AggregationPlacement", << LeftClause >>) >>
           /\ LeftClause = << >> => PlacementIssues = << >>
           /\ (src.kind = "compared" /\ RightClause \notin { << >>, LeftClause })
                => PlacementIssues = << >>
           /\ (src.kind = "binary" /\ LeftClause # << >> /\ RightClause = LeftClause
                  /\ Called("checkRedundantAggregations"))
                => ret["checkRedundantAggregations"] # << >>

C18_Witness ==
    /\ src.kind = "binary"
    /\ Called("checkAggregationPlacement")
    /\ Called("checkRedundantAggregations")
    /\ LeftClause # << >>
    /\ RightClause = LeftClause
    /\ PlacementIssues # << >>
    /\ ret["checkRedundantAggregations"] # << >>

---------------------------------------------------------------------------
(* The validators.                                                         *)

\* C19: a metric name outside the list of standard metrics gets the
\* camelCase issue exactly when a lower-case letter stands immediately
\* before an upper-case letter in it, and the application-prefix issue
\* exactly when it has neither an underscore nor a colon; a standard metric
\* gets no issue.
C19_NamingIssues ==
    (src.kind = "name" /\ Called("checkMetricNamingConventions"))
        => LET name == src.text
               found == ret["checkMetricNamingConventions"]
               standard == name \in { standardMetrics[k] : k \in 1..Len(standardMetrics) }
               camel == \E i \in 1..(Len(name) - 1) :
                            name[i] \in Lower /\ name[i + 1] \in Upper
               bare == \A i \in 1..Len(name) : name[i] \notin { "_", ":" }
           IN  IF standard THEN found = << >>
               ELSE /\ IssuesOfKind(found, "CamelCase")
                         = IF camel THEN << Issue("CamelCase", << name >>) >> ELSE << >>
                    /\ IssuesOfKind(found, "ApplicationPrefix")
                         = IF bare THEN << Issue("ApplicationPrefix", << name, name >>) >>
                           ELSE << >>

C19_Witness ==
    /\ src.kind = "name"
    /\ src.text = << "h", "t", "t", "p", "R", "e", "q", "u", "e", "s", "t", "s", "T", "o", "t", "a", "l" >>
    /\ Called("checkMetricNamingConventions")
    /\ Len(ret["checkMetricNamingConventions"]) = 2

\* C20: checkInstrumentationPatterns reports the division without
\* zero-protection exactly when the expression has a slash between two
\* spaces and neither the text " or " nor the text "!= 0".
C20_DivisionWithoutProtection ==
    (src.kind = "quotient" /\ Called("checkInstrumentationPatterns"))
        => IssuesOfKind(ret["checkInstrumentationPatterns"], "DivisionWithoutZeroProtection")
             = IF src.op.spaced /\ ~src.den.guard /\ ~src.tail.guard
               THEN << Issue("DivisionWithoutZeroProtection", << >>) >>
               ELSE << >>

C20_Witness ==
    /\ src.kind = "quotient"
    /\ src.op.spaced
    /\ ~src.den.guard
    /\ ~src.tail.guard
    /\ src.tail.text # << >>
    /\ Called("checkInstrumentationPatterns")
    /\ IssuesOfKind(ret["checkInstrumentationPatterns"], "DivisionWithoutZeroProtection") # << >>

---------------------------------------------------------------------------
(* checkLabelNaming on label selectors                                     *)

\* The label names of the matchers the expression was written with.
SelectorLabelNames ==
    { src.first[k].name : k \in 1..Len(src.first) }
        \cup { src.second[k].name : k \in 1..Len(src.second) }

\* The number of issues of a kind that checkLabelNaming returned for a name.
LabelIssueCount(kind, name) ==
    Len(SelectSeq(ret["checkLabelNaming"], LAMBDA i : i = Issue(kind, << name >>)))

\* C21: for every label name in a selector of the expression,
\* checkLabelNaming reports the double-underscore issue once if the name
\* starts with "__" and not otherwise, and the leading-underscore issue once
\* if it starts with exactly one "_" and not otherwise.
C21_UnderscoreIssuePerLabelName ==
    (src.kind = "selectors" /\ Called("checkLabelNaming")) =>
        \A n \in SelectorLabelNames :
            /\ LabelIssueCount("DoubleLeadingUnderscore", n)
                   = (IF HasPrefix(n, << "_", "_" >>) THEN 1 ELSE 0)
            /\ LabelIssueCount("LeadingUnderscore", n)
                   = (IF HasPrefix(n, << "_" >>) /\ ~HasPrefix(n, << "_", "_" >>) THEN 1 ELSE 0)

---------------------------------------------------------------------------
(* The checks of a recording-rule name                                     *)

\* The name has the recommended form: a level, a snake_case metric
\* component that does not end with _total, operations with a time window.
RecommendedRuleName ==
    /\ src.kind = "rule"
    /\ src.level # << >>
    /\ src.metric.snake /\ ~src.metric.total
    /\ src.operations.given /\ src.operations.window

FlaggedExamples ==
    { << "j", "o", "b", ":", "h", "t", "t", "p", "_", "r", "e", "q", "u", "e", "s", "t", "s", "_", "t", "o", "t", "a", "l", ":", "r", "a", "t", "e", "5", "m" >>,
      << "j", "o", "b", ":", "c", "p", "u", "_", "u", "s", "a", "g", "e", ":", "v", "a", "l", "u", "e" >>, << "j", "o", "b", ":", "c", "p", "u", "_", "u", "s", "a", "g", "e", ":", "a", "v", "g" >> }

\* C22: the checks of a metric name report nothing for a recording-rule
\* name of the recommended form (job:http_requests:rate5m), and something
\* for job:http_requests_total:rate5m, job:cpu_usage:value and
\* job:cpu_usage:avg.
C22_RecommendedRuleNameAccepted ==
    (src.kind = "rule" /\ Called("MetricNameIssues")) =>
        /\ RecommendedRuleName => ret["MetricNameIssues"] = << >>
        /\ expr \in FlaggedExamples => ret["MetricNameIssues"] # << >>

---------------------------------------------------------------------------
(* roundToSensibleDuration and AnalyzeAlert                                *)

Ladder ==
    { 30 * Second, 1 * Minute, 2 * Minute, 5 * Minute, 10 * Minute, 15 * Minute,
      30 * Minute, 1 * Hour, 2 * Hour, 6 * Hour, 12 * Hour, 24 * Hour }

Rounded == ret["roundToSensibleDuration"]
RoundedSecond == ret["roundToSensibleDuration of the second"]

\* C23: roundToSensibleDuration(d) is a member of the ladder, the smallest
\* one that is at least d when d is at most 24h and 24h when d is more, and
\* of two durations the larger one is not rounded to less than the smaller.
C23_SmallestLadderValueAtLeast ==
    (src.kind = "durations" /\ Called("roundToSensibleDuration")) =>
        /\ Rounded \in Ladder
        /\ expr[1] <= 24 * Hour =>
              Rounded >= expr[1] /\ \A sd \in Ladder : sd >= expr[1] => Rounded <= sd
        /\ expr[1] > 24 * Hour => Rounded = 24 * Hour
        /\ (Called("roundToSensibleDuration of the second") /\ expr[1] <= expr[2]) =>
              Rounded <= RoundedSecond

\* A duration on a step of the ladder and a larger one between two steps
\* were rounded.
C23_Witness ==
    /\ src.kind = "durations"
    /\ Called("roundToSensibleDuration") /\ Called("roundToSensibleDuration of the second")
    /\ expr[1] = 5 * Minute /\ Rounded = 5 * Minute
    /\ expr[2] = 5 * Minute + 1 /\ RoundedSecond = 10 * Minute

EventDurations == { expr[i].Duration : i \in 1..Len(expr) }

\* C24: for a list of events that is not empty, AnalyzeAlert reports the
\* number of events as FiringCount, the least of their durations as
\* MinDuration and the greatest as MaxDuration, also when some event has no
\* length, and MinDuration <= MedianDuration <= MaxDuration.
C24_CountMinMaxMedian ==
    (src.kind = "events" /\ Called("AnalyzeAlert") /\ expr # << >>) =>
        /\ ret["AnalyzeAlert"].FiringCount = Len(expr)
        /\ ret["AnalyzeAlert"].MinDuration \in EventDurations
        /\ \A d \in EventDurations : ret["AnalyzeAlert"].MinDuration <= d
        /\ ret["AnalyzeAlert"].MaxDuration \in EventDurations
        /\ \A d \in EventDurations : ret["AnalyzeAlert"].MaxDuration >= d
        /\ ret["AnalyzeAlert"].MinDuration <= ret["AnalyzeAlert"].MedianDuration
        /\ ret["AnalyzeAlert"].MedianDuration <= ret["AnalyzeAlert"].MaxDuration

---------------------------------------------------------------------------
(* splitByBinaryOperator                                                   *)

\* The byte at position i of s is a quote character with no backslash
\* before it.
UnescapedQuoteAt(s, i) == s[i] \in QuoteCh /\ (i = 1 \/ s[i - 1] # "\\")

RECURSIVE OpenQuote(_, _)
\* The quote character of the string that is open after the first i bytes
\* of s, "" if none is: an unescaped quote character opens a string when
\* none is open and closes the one it opened.
OpenQuote(s, i) ==
    IF i = 0 THEN ""
    ELSE LET before == OpenQuote(s, i - 1)
         IN  IF ~UnescapedQuoteAt(s, i) THEN before
             ELSE IF before = "" THEN s[i]
             ELSE IF before = s[i] THEN ""
             ELSE before

\* The byte at position i is outside every quoted string and not a
\* delimiter of one.
OutsideQuotes(s, i) == OpenQuote(s, i - 1) = "" /\ OpenQuote(s, i) = ""

\* The number of parentheses open after the first i bytes, those inside
\* quoted strings not counted.
ParenDepth(s, i) ==
    Cardinality({ j \in 1..i : s[j] = "(" /\ OutsideQuotes(s, j) })
        - Cardinality({ j \in 1..i : s[j] = ")" /\ OutsideQuotes(s, j) })

\* The positions at which op occurs at depth 0 and outside quoted strings.
TopLevelOccurrences(s, op) ==
    { i \in 1..Len(s) : HasPrefixAt(s, i, op) /\ OutsideQuotes(s, i) /\ ParenDepth(s, i) = 0 }

\* Every parenthesis and every quoted string of s is closed, and no
\* parenthesis is closed before it was opened.
Balanced(s) ==
    /\ OpenQuote(s, Len(s)) = ""
    /\ ParenDepth(s, Len(s)) = 0
    /\ \A i \in 1..Len(s) : ParenDepth(s, i) >= 0

SplitParts == ret["splitByBinaryOperator"]

\* C25: splitByBinaryOperator(expr, op) returns << expr >> if op occurs
\* nowhere at parenthesis depth 0 outside quoted strings, and otherwise
\* the texts before and after the first such occurrence, so that
\* left + op + right = expr; if the parentheses and quotes of expr are
\* balanced, so are those of the left part.
C25_SplitAtFirstTopLevelOccurrence ==
    (src.kind = "tokens" /\ Called("splitByBinaryOperator")) =>
        LET at == TopLevelOccurrences(expr, BinaryOps[1])
        IN  /\ at = {} => SplitParts = << expr >>
            /\ at # {} =>
                  /\ Len(SplitParts) = 2
                  /\ Len(SplitParts[1]) + 1 = CHOOSE i \in at : \A j \in at : i <= j
                  /\ SplitParts[1] \o BinaryOps[1] \o SplitParts[2] = expr
                  /\ Balanced(expr) => Balanced(SplitParts[1])

\* The operator stands in a quoted string and then at the top level, where
\* the text was split.
C25_Witness ==
    /\ src.kind = "tokens" /\ Called("splitByBinaryOperator")
    /\ src.tokens = << << "\"" >>, << " ", "/", " " >>, << "\"" >>, << " ", "/", " " >>, << "a" >> >>
    /\ SplitParts = << << "\"", " ", "/", " ", "\"" >>, << "a" >> >>

---------------------------------------------------------------------------
(* The order in which formatPromQLMultiline tries the operators            *)

\* The order of priority.
PriorityOrder ==
    << << " ", "/", " " >>, << " ", "*", " " >>, << " ", "+", " " >>, << " ", "-", " " >>, << " ", "%", " " >>, << " ", "^", " " >> >>

Priority(op) == CHOOSE k \in 1..Len(PriorityOrder) : PriorityOrder[k] = op

\* The operator of a chain that comes first in the order of priority, by
\* its place in the chain: the first one unless the second has priority.
ChainSplit == IF Priority(src.ops[2]) < Priority(src.ops[1]) THEN 2 ELSE 1

ChainLeft ==
    IF ChainSplit = 1 THEN src.operands[1]
    ELSE src.operands[1] \o src.ops[1] \o src.operands[2]

ChainRight ==
    IF ChainSplit = 2 THEN src.operands[3]
    ELSE src.operands[2] \o src.ops[2] \o src.operands[3]

\* The lines of a formatted expression that are operator lines: two
\* spaces and an operator.
AllOperatorLines(out) ==
    SelectSeq(Split(out, NL),
              LAMBDA line : \E k \in 1..Len(PriorityOrder) :
                                line = << " ", " " >> \o TrimSpace(PriorityOrder[k]))

\* C26: formatPromQLMultiline splits an expression at the first top-level
\* occurrence of the operator that comes first in the order / * + - % ^
\* among those that occur at the top level, wherever the others stand and
\* whatever operators stand in parentheses or quotes, and its result has
\* one operator line.
C26_SplitAtOperatorOfFirstPriority ==
    (src.kind = "chain" /\ Called("formatPromQLMultiline")) =>
        /\ ret["formatPromQLMultiline"]
              = formatOperand(ChainLeft, 0, FALSE) \o NL
                  \o << " ", " " >> \o TrimSpace(src.ops[ChainSplit]) \o NL
                  \o formatOperand(ChainRight, 0, FALSE)
        /\ Len(AllOperatorLines(ret["formatPromQLMultiline"])) = 1

\* "(b / c) + a * a": the division stands in parentheses only, and the
\* text was split at the multiplication, which stands after the addition.
C26_Witness ==
    /\ src.kind = "chain" /\ Called("formatPromQLMultiline")
    /\ src.operands[1] = << "(", "b", " ", "/", " ", "c", ")" >>
    /\ src.ops = << << " ", "+", " " >>, << " ", "*", " " >> >>
    /\ ret["formatPromQLMultiline"]
          = src.operands[1] \o src.ops[1] \o src.operands[2] \o NL \o << " ", " ", "*" >> \o NL
              \o formatOperand(src.operands[3], 0, FALSE)

---------------------------------------------------------------------------
(* No runtime fault                                                        *)

\* The text carries the mark of a panic.
Panicked(text) == \E k \in DOMAIN text : text[k] = PanicMark

\* The tokens of the input hold a quote character that is the first byte of
\* the expression and is never closed.
LeadingOpenQuote ==
    /\ Len(src.tokens) > 0
    /\ src.tokens[1] = << "\"" >>
    /\ \A k \in 2..Len(src.tokens) : src.tokens[k] # << "\"" >>

\* C27: for every text, with unbalanced parentheses, unterminated quotes, a
\* leading quote character or the operator at its very end,
\* splitByBinaryOperator returns one or two parts, and CheckAndFormatPromQL
\* (and formatPromQLMultiline, which it calls for the expressions to format)
\* returns a document: no index or slice is out of range on the way.
C27_NoRuntimeFault ==
    /\ Called("splitByBinaryOperator")
          => /\ Len(ret["splitByBinaryOperator"]) \in {1, 2}
             /\ \A k \in DOMAIN ret["splitByBinaryOperator"] :
                   ~Panicked(ret["splitByBinaryOperator"][k])
    /\ ~Panicked(formatted)

\* An expression that opens with a quote that is never closed and holds the
\* operator went through formatPromQLMultiline and was split into one part.
C27_Witness ==
    /\ LeadingOpenQuote
    /\ src.tokens = << << "\"" >>, WordyOperand, << " ", "/", " " >>, << ")" >> >>
    /\ Called("splitByBinaryOperator")
    /\ ret["splitByBinaryOperator"] = << expr >>
    /\ pc = "returned"
    /\ \E k \in DOMAIN issues : issues[k].kind = "ShouldBeMultiline"

---------------------------------------------------------------------------
(* Two invocations on the same expression                                  *)

\* C28: two invocations on the same input return the same list of issues in
\* the same order, also when the expression names several metrics.
C28_SameIssuesOnBothInvocations ==
    (Called("checkPrometheusBestPractices") /\ Called("checkPrometheusBestPractices again"))
        => ret["checkPrometheusBestPractices"] = ret["checkPrometheusBestPractices again"]

---------------------------------------------------------------------------
(* The rendering and the redundancy issue                                  *)

\* The first operand was written with a clause, and the text above the
\* operator line does not have it.
LeftClauseOmitted ==
    /\ src.operands[1].form = "postfix"
    /\ ~Contains(Squeeze(LeftOperandText(ret["formatPromQLMultiline"], src.op)),
                 Squeeze(ClauseText(src.operands[1])))

\* C29: formatPromQLMultiline omits the clause of the left operand only if
\* checkRedundantAggregations reports a redundant clause for the same
\* expression, also when the operator occurs several times or inside
\* parentheses.
C29_OmittedOnlyIfReported ==
    (Called("formatPromQLMultiline") /\ Called("checkRedundantAggregations")
        /\ LeftClauseOmitted)
        => IssuesOfKind(ret["checkRedundantAggregations"], "RedundantAggregation") # << >>

---------------------------------------------------------------------------
(* What a rewrite leaves in place                                          *)

\* The document with the lines of its fields rewritten and every other line
\* as it was given.
ExpectedEcho(in, options) == Join(EchoLines(in, ExpectedFieldLines(in.field, options)), NL)

\* C30: the returned document differs from the given one in the lines of
\* the expr:/query: fields only, each replaced at its own place by its
\* block, also when the text of a field's line occurs elsewhere in the
\* document.
C30_OnlyTheFieldRewritten ==
    (src.kind = "echo" /\ pc = "returned") => formatted = ExpectedEcho(src, opts)

=============================================================================
